---------------------------- MODULE Spec2Model ----------------------------
(***************************************************************************)
(* A model of the interdit volume viewer.  The repository holds several    *)
(* generations of the viewer side by side; each is modelled from its own   *)
(* source and checked under its own specification:                         *)
(*                                                                         *)
(*   Spec         the X11 viewer with per-view planes, scrollbars, radio   *)
(*                buttons and the visible-rectangle zoom                   *)
(*                (src/src/Viewer.cpp 405-910, src/src/Widgets.cpp,        *)
(*                src/src/Volume.cpp)                                      *)
(*   SpecText     the same viewer with the pointer on its text inputs and  *)
(*                the keys typed into them                                 *)
(*   SpecVolume   the two sample accessors, Volume::at and                 *)
(*                Volume::get_value                                        *)
(*   SpecColormap the intensity mappings of the renderers                  *)
(*   SpecCanvas   the FLTK viewer (src/src/interdit.cpp)                   *)
(*   SpecWindow   the window inputs, orientation and slice callbacks of    *)
(*                the FLTK viewer                                          *)
(*   SpecLayout   the toolbar of the rubber-band viewer                    *)
(*                (src/src/Viewer.cpp 81-193 with the toggle Button of     *)
(*                src/unnamed/part_009)                                    *)
(*   SpecZoom     box zooms of the X11 viewer made one after another on a  *)
(*                view that fills a window-sized canvas                    *)
(*   SpecPlane    the X11 viewer with the pointer on the scrollbar and the *)
(*                radio buttons of the view 0                              *)
(*   SpecOutside  the X11 viewer with the pointer inside and outside the   *)
(*                views                                                    *)
(*   SpecKeys     the keyboard viewer: one state_ for the window, changed  *)
(*                by the keys and a drag (src/src/Viewer.cpp 206-400)      *)
(*   SpecSetter   a Volume object and its window setter                    *)
(*                (src/src/Volume.cpp 7-43)                                *)
(*   SpecReplane  the X11 viewer of a volume whose planes differ in width, *)
(*                with the pointer on the radio buttons of the view 0 and  *)
(*                on the canvas of the view 1                              *)
(*   SpecTick     the passes of the loop of Viewer::run of the rubber-band *)
(*                viewer over the pending events (src/src/Viewer.cpp       *)
(*                61-79, 134-193)                                          *)
(*   SpecRadio    the X11 viewer with the pointer on the Drag button, the  *)
(*                canvas and the radio buttons of the view 0               *)
(*   SpecShort    the viewer of src/unnamed/part_007, whose handle_events  *)
(*                stops at the first widget that takes an event            *)
(*                                                                         *)
(* Floating-point values are modelled by exact integers or rationals; the  *)
(* float -> int and float -> uint8_t conversions truncate toward zero.     *)
(***************************************************************************)
EXTENDS Integers, Sequences, FiniteSets, TLC

----------------------------------------------------------------------------
(* C++ integer arithmetic *)

Abs(a) == IF a < 0 THEN -a ELSE a

Min(a, b) == IF b < a THEN b ELSE a

Max(a, b) == IF a < b THEN b ELSE a

\* int / int of C++: the quotient truncated toward zero (b # 0)
CDiv(a, b) ==
  IF (a >= 0) = (b > 0) THEN Abs(a) \div Abs(b) ELSE -(Abs(a) \div Abs(b))

\* std::clamp(v, lo, hi) for lo <= hi
Clamp(v, lo, hi) == IF v < lo THEN lo ELSE IF hi < v THEN hi ELSE v

----------------------------------------------------------------------------
(* Bounds of the model *)

\* largest extent of a probed volume axis (SpecVolume)
MaxDim == 2

\* probed coordinates run from -CoordSlack to extent - 1 + CoordSlack
CoordSlack == 1

\* window bounds of the colormap probes run over 0..MaxWin (SpecColormap)
MaxWin == 5

\* sample values run from -ValSlack to MaxWin + ValSlack
ValSlack == 2

\* longest text a text input holds in the model; further characters are
\* not typed
MaxTextLen == 2

\* the visible rectangle's coordinates stay within -MaxExtent..MaxExtent
MaxExtent == 45

MaxGrow == 1

\* the FLTK canvas is followed while |pan_x|, |pan_y| <= MaxPan (SpecCanvas)
MaxPan == 600

\* box zooms made one after another on a view (SpecZoom)
MaxGestures == 2

\* SpecKeys: the largest numerator and denominator of the zoom (6^3: three
\* '+' or '-' presses away from 1)
MaxZoomTerm == 216

\* SpecKeys: the largest pan followed, in pixels
MaxShift == 2

\* SpecKeys: the last column and row of the image whose conversions are checked
MaxScreen == 8

\* the last image column and row of draw_frame followed to the buffer
MaxSource == 20

\* SpecTick: the most events pending at once
MaxPending == 2

VARIABLES
  views_,        \* Spec: per view, the ViewState fields that are not widgets
  min_input,     \* Spec: per view, the TextInput of the window minimum
  max_input,     \* Spec: per view, the TextInput of the window maximum
  zoom_btn,      \* Spec: per view, the Zoom Button
  drag_btn,      \* Spec: per view, the Drag Button
  scrollbar,     \* Spec: per view, the slice Scrollbar
  xy_radio,      \* Spec: per view, the XY RadioButton
  xz_radio,      \* Spec: per view, the XZ RadioButton
  yz_radio,      \* Spec: per view, the YZ RadioButton
  interaction_,  \* Spec: the window-wide InteractionState
  window,        \* Spec: per view, its Volume's (window_min_, window_max_)
  down,          \* Spec: the pointer buttons the user holds down
  dims,          \* SpecVolume: (nx, ny, nz) of the probed volume
  acc,           \* SpecVolume: the last sample access: accessor, arguments, outcome
  build,         \* SpecColormap: the target the viewer was compiled for
  frame,         \* SpecColormap: the last rendered frame: renderer, window, pixels
  vol,           \* SpecCanvas, SpecWindow: the Volume of interdit.cpp
  canvas,        \* SpecCanvas, SpecWindow: the Canvas of interdit.cpp
  inputs,        \* SpecCanvas, SpecWindow: the texts of min_input and max_input
  drawn,         \* SpecCanvas, SpecWindow: the indices Canvas::draw read last
  layout,        \* SpecLayout: the toolbar Viewer::create_layout makes
  gesture,       \* SpecZoom: the last box zoom: the view before it, the drag, the view after
  state_,        \* SpecKeys: the visualization state of the keyboard viewer
  volobj,        \* SpecSetter: a Volume object (src/src/Volume.cpp)
  loaded,        \* the dimensions of the volumes the viewer was constructed with
  tick           \* SpecTick: the events XPending reports, and those a pass deferred

----------------------------------------------------------------------------
(* Volume: src/src/Volume.cpp, src/unnamed/part_005, src/src/interdit.cpp *)

\* no element of the sample store was read
NoRead == 0 - 1

\* the stored samples: data_[i], the file's i-th float.  The model's file
\* holds the non-zero pattern 1, 2, 3, 1, 2, 3, ... so that a stored sample
\* is never mistaken for the sentinel.
data(i) == (i % 3) + 1

\* number of stored samples: data_.resize(nx * ny * nz)
size(d) == d.nx * d.ny * d.nz

\* the linear index both accessors compute
LinearIndex(d, x, y, z) == z * d.nx * d.ny + y * d.nx + x

\* what reading data_[i] can produce: the sample when i is inside the store;
\* outside it the read is undefined: some float of the neighbouring memory
\* (the sentinel's value included), or a fault that stops the process
ReadOutcomes(d, i) ==
  IF 0 <= i /\ i < size(d)
    THEN {[value |-> data(i), fault |-> FALSE]}
    ELSE {[value |-> v, fault |-> FALSE] : v \in 0..3}
           \cup {[value |-> 0, fault |-> TRUE]}

\* float Volume::at(int x, int y, int z) const
at(d, x, y, z) ==
  IF x < 0 \/ x >= d.nx \/ y < 0 \/ y >= d.ny \/ z < 0 \/ z >= d.nz
    THEN [read |-> NoRead, value |-> 0, fault |-> FALSE]
    ELSE [read |-> LinearIndex(d, x, y, z),
          value |-> data(LinearIndex(d, x, y, z)), fault |-> FALSE]

\* float Volume::get_value(int x, int y, int z) const (interdit.cpp): the set
\* of possible outcomes
get_value(d, x, y, z) ==
  { [read |-> LinearIndex(d, x, y, z), value |-> r.value, fault |-> r.fault] :
      r \in ReadOutcomes(d, LinearIndex(d, x, y, z)) }

DimsSet == [nx : 1..MaxDim, ny : 1..MaxDim, nz : 1..MaxDim]

Coords(n) == (0 - CoordSlack)..(n - 1 + CoordSlack)

InitVolume ==
  /\ dims \in DimsSet
  /\ acc = [fn |-> "none", x |-> 0, y |-> 0, z |-> 0,
            read |-> NoRead, value |-> 0, fault |-> FALSE]

\* a caller reads one sample through Volume::at
CallAt ==
  \E x \in Coords(dims.nx), y \in Coords(dims.ny), z \in Coords(dims.nz) :
    /\ acc' = [fn |-> "at", x |-> x, y |-> y, z |-> z,
               read |-> at(dims, x, y, z).read, value |-> at(dims, x, y, z).value,
               fault |-> at(dims, x, y, z).fault]
    /\ UNCHANGED dims

\* a caller reads one sample through Volume::get_value
CallGetValue ==
  \E x \in Coords(dims.nx), y \in Coords(dims.ny), z \in Coords(dims.nz) :
    \E r \in get_value(dims, x, y, z) :
      /\ acc' = [fn |-> "get_value", x |-> x, y |-> y, z |-> z,
                 read |-> r.read, value |-> r.value, fault |-> r.fault]
      /\ UNCHANGED dims


----------------------------------------------------------------------------
(* Colormap: the sample -> intensity step of the renderers *)

\* The value of the float expression 255 * (val - min) / (max - min):
\* a finite quotient, truncated toward zero as the conversion to an integer
\* type does, or the IEEE result of dividing by a zero-width window.
Scaled(val, min, max) ==
  IF max # min THEN [kind |-> "finite", t |-> CDiv(255 * (val - min), max - min)]
  ELSE IF val > min THEN [kind |-> "+inf", t |-> 0]
  ELSE IF val < min THEN [kind |-> "-inf", t |-> 0]
  ELSE [kind |-> "nan", t |-> 0]

\* the targets a build of the viewer runs on
Builds == {"x86_64", "aarch64"}

\* static_cast<uint8_t>(float).  The conversion is defined when the truncated
\* value is in 0..255; otherwise it is undefined and the result is what the
\* target's instruction leaves in the low byte: x86-64 converts to a 32-bit
\* signed integer (the "integer indefinite" 0x80000000 for inf and NaN) and
\* keeps the low byte; AArch64 saturates to an unsigned 32-bit integer (0 for
\* a negative value and NaN, all ones for +inf) and keeps the low byte.
ToUint8(b, q) ==
  IF q.kind = "finite"
    THEN IF 0 <= q.t /\ q.t <= 255 THEN q.t
         ELSE IF b = "x86_64" THEN q.t % 256
         ELSE IF q.t < 0 THEN 0 ELSE q.t % 256
    ELSE IF b = "aarch64" /\ q.kind = "+inf" THEN 255 ELSE 0

\* Viewer::draw_volume of the X11 viewer (Viewer.cpp 737-750)
intensity(b, val, min_value, max_value) ==
  IF val <= min_value THEN 0
  ELSE IF val >= max_value THEN 255
  ELSE ToUint8(b, Scaled(val, min_value, max_value))

\* Viewer::draw_frame (Viewer.cpp 315-318), the earlier Viewer::draw_volume
\* (part_007 175-177, part_008 245-246) and Canvas::draw (interdit.cpp 164-165)
intensity_unclamped(b, val, window_min, window_max) ==
  ToUint8(b, Scaled(val, window_min, window_max))

Samples == (0 - ValSlack)..(MaxWin + ValSlack)

Windows == 0..MaxWin

InitColormap ==
  /\ build \in Builds
  /\ frame = [renderer |-> "none", min |-> 0, max |-> 0, pix |-> [v \in Samples |-> 0]]

\* one frame of the X11 viewer: every sample value is shown through the
\* window (min, max)
DrawVolume ==
  \E mn \in Windows, mx \in Windows :
    /\ frame' = [renderer |-> "draw_volume", min |-> mn, max |-> mx,
                 pix |-> [v \in Samples |-> intensity(build, v, mn, mx)]]
    /\ UNCHANGED build

\* one frame of a renderer that scales without clamping
DrawFrame ==
  \E mn \in Windows, mx \in Windows :
    /\ frame' = [renderer |-> "draw_frame", min |-> mn, max |-> mx,
                 pix |-> [v \in Samples |-> intensity_unclamped(build, v, mn, mx)]]
    /\ UNCHANGED build


----------------------------------------------------------------------------
(* Widgets: src/src/Widgets.cpp, src/unnamed/part_006 *)

\* X11's number of the left pointer button, and of another button
Button1 == 1

OtherButton == Button1 + 2

\* an XEvent: its type, the pointer position, and the button or the key
Event(t, px, py, b, k) == [type |-> t, x |-> px, y |-> py, button |-> b, key |-> k]

Digits == {"0", "1", "2", "3", "4", "5", "6", "7", "8", "9"}

DigitVal(c) ==
  CASE c = "0" -> 0 [] c = "1" -> 1 [] c = "2" -> 2 [] c = "3" -> 3 [] c = "4" -> 4
    [] c = "5" -> 5 [] c = "6" -> 6 [] c = "7" -> 7 [] c = "8" -> 8 [] c = "9" -> 9

\* the point (px, py) is inside the rectangle (x, y, width, height), edges
\* included: the test TextInput and Button share
InsideRect(px, py, x, y, width, height) ==
  px >= x /\ px <= x + width /\ py >= y /\ py <= y + height

\* bool TextInput::handle_event(const XEvent&): the widget after the event
\* and the value returned
TextInput_handle_event(t, e) ==
  IF e.type = "ButtonPress" THEN
    LET clicked == InsideRect(e.x, e.y, t.x_, t.y_, t.width_, t.height_)
    IN  [w |-> [t EXCEPT !.has_focus_ = clicked], ret |-> clicked]
  ELSE IF e.type = "KeyPress" THEN
    IF ~t.has_focus_ THEN [w |-> t, ret |-> FALSE]
    ELSE IF e.key = "BackSpace" THEN
      [w |-> [t EXCEPT !.text_ =
                IF Len(t.text_) > 0 THEN SubSeq(t.text_, 1, Len(t.text_) - 1)
                ELSE t.text_],
       ret |-> TRUE]
    ELSE IF e.key = "Return" THEN
      [w |-> [t EXCEPT !.has_focus_ = FALSE], ret |-> TRUE]
    ELSE IF e.key \in Digits \cup {".", "-"} THEN
      [w |-> [t EXCEPT !.text_ = Append(t.text_, e.key)], ret |-> TRUE]
    ELSE [w |-> t, ret |-> TRUE]
  ELSE [w |-> t, ret |-> FALSE]

\* bool Button::handle_event(const XEvent&): the widget after the event, the
\* value returned, and whether the callback was called
Button_handle_event(b, e) ==
  LET inside == InsideRect(e.x, e.y, b.x_, b.y_, b.width_, b.height_)
  IN  IF e.type = "ButtonPress" THEN
        [w |-> IF inside THEN [b EXCEPT !.state_ = "PRESSED"] ELSE b,
         ret |-> inside, fire |-> FALSE]
      ELSE IF e.type = "ButtonRelease" THEN
        [w |-> [b EXCEPT !.state_ = "NORMAL"], ret |-> inside,
         fire |-> (b.state_ = "PRESSED" /\ inside)]
      ELSE IF e.type = "MotionNotify" THEN
        [w |-> [b EXCEPT !.state_ = IF inside THEN "HOVER" ELSE "NORMAL"],
         ret |-> inside, fire |-> FALSE]
      ELSE [w |-> b, ret |-> FALSE, fire |-> FALSE]

\* the int that min_value_ + ratio * (max_value_ - min_value_) converts to,
\* for ratio = num / den
ScrollValue(s, num, den) ==
  CDiv(s.min_value_ * den + num * (s.max_value_ - s.min_value_), den)

\* bool Scrollbar::handle_event(const XEvent&)
Scrollbar_handle_event(s, e) ==
  LET in_x == e.x >= s.x_ /\ e.x <= s.x_ + 15
  IN  IF e.type = "ButtonPress" /\ e.button = Button1 /\ in_x THEN
        [w |-> [s EXCEPT !.current_value_ =
                   Clamp(ScrollValue(s, e.y - s.y_, s.height_),
                         s.min_value_, s.max_value_),
                 !.dragging_ = TRUE],
         ret |-> TRUE]
      ELSE IF e.type = "MotionNotify" /\ s.dragging_ /\ in_x THEN
        LET new_y == e.y - s.y_
        IN  [w |-> [s EXCEPT !.current_value_ =
                       IF new_y <= 0 THEN ScrollValue(s, 0, 1)
                       ELSE IF new_y >= s.height_ THEN ScrollValue(s, 1, 1)
                       ELSE ScrollValue(s, new_y, s.height_)],
             ret |-> TRUE]
      ELSE IF e.type = "ButtonRelease" /\ e.button = Button1 THEN
        [w |-> [s EXCEPT !.dragging_ = FALSE], ret |-> in_x]
      ELSE [w |-> s, ret |-> FALSE]

\* void Scrollbar::set_range(int min, int max)
set_range(s, min, max) ==
  [s EXCEPT !.min_value_ = min, !.max_value_ = max,
            !.current_value_ = Clamp(s.current_value_, min, max)]

\* bool RadioButton::handle_event(const XEvent&)
RadioButton_handle_event(r, e) ==
  IF /\ e.type = "ButtonPress" /\ e.button = Button1
     /\ e.x - r.x_ >= 0 /\ e.x - r.x_ <= 30
     /\ e.y - r.y_ >= 0 /\ e.y - r.y_ <= 16
    THEN [w |-> [r EXCEPT !.selected_ = TRUE], ret |-> TRUE]
    ELSE [w |-> r, ret |-> FALSE]

\* void RadioButton::set_selected(bool)
set_selected(r, selected) == [r EXCEPT !.selected_ = selected]

----------------------------------------------------------------------------
(* The X11 viewer: src/src/Viewer.cpp 405-910, src/unnamed/part_004 *)

\* int toolbar_height_ = 40, image_spacing_ = 30, scrollbar_width_ = 15
toolbar_height_ == 40

image_spacing_ == 30

scrollbar_width_ == 15

\* the volumes handed to Viewer::Viewer, one per view: their dimensions
Volumes == <<[nx |-> 7, ny |-> 7, nz |-> 3], [nx |-> 6, ny |-> 6, nz |-> 2]>>

\* volumes whose first has planes of different widths: XY and XZ are 7
\* columns wide, YZ is 9
WideVolumes == <<[nx |-> 7, ny |-> 9, nz |-> 3], [nx |-> 6, ny |-> 6, nz |-> 2]>>

\* the indices of views_
View == 0..(Len(Volumes) - 1)

\* views_[i].volume
volume(i) == loaded[i + 1]

\* the slice axis extent of a plane: XY -> nz, XZ -> ny, YZ -> nx
SliceExtent(d, plane) ==
  CASE plane = "XY" -> d.nz [] plane = "XZ" -> d.ny [] plane = "YZ" -> d.nx

\* a plane change that leaves the scrollbar with the range it had
keep_scrollbar_range(d, plane, sb) == sb

\* void Viewer::update_scrollbar_range(ViewState&): the view's scrollbar
update_scrollbar_range(d, plane, sb) == set_range(sb, 0, SliceExtent(d, plane) - 1)

\* int Viewer::get_view_width(const ViewState&) const
get_view_width(d, plane) ==
  CASE plane = "XY" -> d.nx [] plane = "XZ" -> d.nx [] plane = "YZ" -> d.ny

\* int Viewer::get_view_height(const ViewState&) const
get_view_height(d, plane) ==
  CASE plane = "XY" -> d.ny [] plane = "XZ" -> d.nz [] plane = "YZ" -> d.nz

\* a plane change that sizes the canvas and leaves the visible rectangle as
\* the gestures made it
keep_visible_rectangle(d, view) ==
  [view EXCEPT !.canvas_width = get_view_width(d, view.plane),
               !.canvas_height = get_view_height(d, view.plane)]

\* void Viewer::update_canvas_dimensions(ViewState&)
update_canvas_dimensions(d, view) ==
  LET w == CASE view.plane = "XY" -> d.nx [] view.plane = "XZ" -> d.nx
             [] view.plane = "YZ" -> d.ny
      h == CASE view.plane = "XY" -> d.ny [] view.plane = "XZ" -> d.nz
             [] view.plane = "YZ" -> d.nz
  IN  [view EXCEPT !.canvas_width = w, !.canvas_height = h,
                   !.volume_x_start = 0, !.volume_y_start = 0,
                   !.volume_x_end = w, !.volume_y_end = h]

\* bool Viewer::is_point_in_view(int x, int y, const ViewState&)
is_point_in_view(x, y, d, view, sb) ==
  LET view_x == sb.x_ + scrollbar_width_ + image_spacing_
      view_y == toolbar_height_ + image_spacing_
      view_width == get_view_width(d, view.plane)
      view_height == get_view_height(d, view.plane)
  IN  x >= view_x /\ x <= view_x + view_width /\ y >= view_y /\ y <= view_y + view_height

\* the zoom_btn callback set in Viewer::Viewer (Button::set_pressed(false)
\* changes nothing)
zoom_callback(view) ==
  [view EXCEPT !.zoom_mode = ~view.zoom_mode, !.drag_mode = FALSE]

\* the drag_btn callback set in Viewer::Viewer
drag_callback(view) ==
  [view EXCEPT !.drag_mode = ~view.drag_mode, !.zoom_mode = FALSE]

\* The body of the loop "for (auto& view : views_)" of Viewer::handle_events
\* is a sequence of steps, one per widget of the view.  Each step takes the
\* view's state and widgets st = [view, mi, ma, zb, db, sb, xy, xz, yz,
\* handled] and gives them after the widget has seen the event e.

\* if (view.min_input->handle_event(event)) widget_handled = true;
min_input_step(e, st) ==
  LET r == TextInput_handle_event(st.mi, e)
  IN  [st EXCEPT !.mi = r.w, !.handled = st.handled \/ r.ret]

\* if (view.max_input->handle_event(event)) widget_handled = true;
max_input_step(e, st) ==
  LET r == TextInput_handle_event(st.ma, e)
  IN  [st EXCEPT !.ma = r.w, !.handled = st.handled \/ r.ret]

\* if (view.zoom_btn->handle_event(event)) widget_handled = true; the button
\* calls its callback from handle_event
zoom_btn_step(e, st) ==
  LET r == Button_handle_event(st.zb, e)
  IN  [st EXCEPT !.zb = r.w,
                 !.view = IF r.fire THEN zoom_callback(st.view) ELSE st.view,
                 !.handled = st.handled \/ r.ret]

\* if (view.drag_btn->handle_event(event)) widget_handled = true;
drag_btn_step(e, st) ==
  LET r == Button_handle_event(st.db, e)
  IN  [st EXCEPT !.db = r.w,
                 !.view = IF r.fire THEN drag_callback(st.view) ELSE st.view,
                 !.handled = st.handled \/ r.ret]

\* if (view.scrollbar->handle_event(event)) { current_slice = get_value(); ... }
scrollbar_step(e, st) ==
  LET r == Scrollbar_handle_event(st.sb, e)
  IN  [st EXCEPT !.sb = r.w,
                 !.view = IF r.ret
                            THEN [st.view EXCEPT !.current_slice = r.w.current_value_]
                            ELSE st.view,
                 !.handled = st.handled \/ r.ret]

\* the branch of the radio button of the plane p, when it took the event
select_plane(d, st, p) ==
  [st EXCEPT !.xy = set_selected(st.xy, p = "XY"),
             !.xz = set_selected(st.xz, p = "XZ"),
             !.yz = set_selected(st.yz, p = "YZ"),
             !.sb = update_scrollbar_range(d, p, st.sb),
             !.view = update_canvas_dimensions(d, [st.view EXCEPT !.plane = p]),
             !.handled = TRUE]

\* if (view.xy_radio->handle_event(event)) { ... }
xy_radio_step(d, e, st) ==
  IF RadioButton_handle_event(st.xy, e).ret THEN select_plane(d, st, "XY") ELSE st

\* if (view.xz_radio->handle_event(event)) { ... }
xz_radio_step(d, e, st) ==
  IF RadioButton_handle_event(st.xz, e).ret THEN select_plane(d, st, "XZ") ELSE st

\* if (view.yz_radio->handle_event(event)) { ... }
yz_radio_step(d, e, st) ==
  IF RadioButton_handle_event(st.yz, e).ret THEN select_plane(d, st, "YZ") ELSE st

\* the body of the loop for the view i: every widget of the view sees the
\* event, in the order of the source
WidgetsOfView(i, e) ==
  yz_radio_step(volume(i), e,
    xz_radio_step(volume(i), e,
      xy_radio_step(volume(i), e,
        scrollbar_step(e,
          drag_btn_step(e,
            zoom_btn_step(e,
              max_input_step(e,
                min_input_step(e,
                  [view |-> views_[i], mi |-> min_input[i], ma |-> max_input[i],
                   zb |-> zoom_btn[i], db |-> drag_btn[i], sb |-> scrollbar[i],
                   xy |-> xy_radio[i], xz |-> xz_radio[i], yz |-> yz_radio[i],
                   handled |-> FALSE]))))))))

\* the loop "for (auto& view : views_)" over the first n views: the result of
\* its body for each of them, in the order of views_
RECURSIVE WidgetsOfViews(_, _)
WidgetsOfViews(n, e) ==
  IF n = 0 THEN <<>> ELSE Append(WidgetsOfViews(n - 1, e), WidgetsOfView(n - 1, e))

\* a zoom-rectangle release that takes the press point for the start corner
\* and the release point for the end corner, whichever way the drag went
handle_zoom_directed(view, ia) ==
  LET size_x == view.volume_x_end - view.volume_x_start
      size_y == view.volume_y_end - view.volume_y_start
      img_x1 == CDiv(size_x * (ia.start_x - view.canvas_x), view.canvas_width)
      img_y1 == CDiv(size_y * (ia.start_y - view.canvas_y), view.canvas_height)
      img_x2 == CDiv(size_x * (ia.current_x - view.canvas_x), view.canvas_width)
      img_y2 == CDiv(size_y * (ia.current_y - view.canvas_y), view.canvas_height)
  IN  IF Abs(img_x2 - img_x1) > 5 /\ Abs(img_y2 - img_y1) > 5
        THEN [view EXCEPT !.volume_x_start = img_x1, !.volume_x_end = img_x2,
                          !.volume_y_start = img_y1, !.volume_y_end = img_y2]
        ELSE view

\* void Viewer::handle_zoom(): the active view after a zoom-rectangle release
handle_zoom(view, ia) ==
  LET curr_volume_view_size_x == view.volume_x_end - view.volume_x_start
      curr_volume_view_size_y == view.volume_y_end - view.volume_y_start
      img_x1 == CDiv(curr_volume_view_size_x * (ia.start_x - view.canvas_x),
                     view.canvas_width)
      img_y1 == CDiv(curr_volume_view_size_y * (ia.start_y - view.canvas_y),
                     view.canvas_height)
      img_x2 == CDiv(curr_volume_view_size_x * (ia.current_x - view.canvas_x),
                     view.canvas_width)
      img_y2 == CDiv(curr_volume_view_size_y * (ia.current_y - view.canvas_y),
                     view.canvas_height)
      rect_width == Abs(img_x2 - img_x1)
      rect_height == Abs(img_y2 - img_y1)
  IN  IF rect_width > 5 /\ rect_height > 5
        THEN [view EXCEPT !.volume_x_start = Min(img_x1, img_x2),
                          !.volume_x_end = Max(img_x1, img_x2),
                          !.volume_y_start = Min(img_y1, img_y2),
                          !.volume_y_end = Max(img_y1, img_y2)]
        ELSE view

\* void Viewer::handle_drag(): the active view after a drag release
handle_drag(view, ia) ==
  LET curr_volume_view_size_x == view.volume_x_end - view.volume_x_start
      curr_volume_view_size_y == view.volume_y_end - view.volume_y_start
      delta_x == CDiv(curr_volume_view_size_x * (ia.start_x - ia.current_x),
                      view.canvas_width)
      delta_y == CDiv(curr_volume_view_size_y * (ia.start_y - ia.current_y),
                      view.canvas_height)
  IN  [view EXCEPT !.volume_x_start = view.volume_x_start + delta_x,
                   !.volume_x_end = view.volume_x_end + delta_x + 1,
                   !.volume_y_start = view.volume_y_start + delta_y,
                   !.volume_y_end = view.volume_y_end + delta_y + 1]

\* "Find which view was clicked": the first view whose rectangle holds the
\* point, or the previous active view when none does
find_view(x, y, vs, sbs, ia) ==
  LET hits == {i \in View : is_point_in_view(x, y, volume(i), vs[i], sbs[i])}
  IN  IF hits = {} THEN ia.active_view
      ELSE CHOOSE i \in hits : \A j \in hits : i <= j

\* A ButtonPress case that looks at the flags of the first view, whichever
\* view the press lands in.
canvas_press_first_view(e, vs, sbs, ia) ==
  IF e.button = Button1 THEN
    [ia EXCEPT !.start_x = e.x, !.start_y = e.y,
               !.current_x = e.x, !.current_y = e.y,
               !.active_view = find_view(e.x, e.y, vs, sbs, ia),
               !.mode = IF vs[0].zoom_mode THEN "ZOOM_RECT"
                        ELSE IF vs[0].drag_mode THEN "DRAGGING"
                        ELSE ia.mode]
  ELSE ia

\* the "switch (event.type)" of Viewer::handle_events, reached when no widget
\* took the event: the ButtonPress case
canvas_press(e, vs, sbs, ia) ==
  IF e.button = Button1 THEN
    LET active == find_view(e.x, e.y, vs, sbs, ia)
    IN  [ia EXCEPT !.start_x = e.x, !.start_y = e.y,
                   !.current_x = e.x, !.current_y = e.y,
                   !.active_view = active,
                   !.mode = IF vs[active].zoom_mode THEN "ZOOM_RECT"
                            ELSE IF vs[active].drag_mode THEN "DRAGGING"
                            ELSE ia.mode]
  ELSE ia

\* the MotionNotify case
canvas_motion(e, ia) ==
  IF ia.mode # "NONE"
    THEN [ia EXCEPT !.current_x = e.x, !.current_y = e.y]
    ELSE ia

\* a ButtonRelease case that runs the gesture on every view, as the loops
\* "for (auto& view : views_)" of an earlier handle_drag and handle_zoom do
canvas_release_all_views(e, vs, ia) ==
  IF e.button = Button1 THEN
    IF ia.mode = "ZOOM_RECT" THEN [i \in View |-> handle_zoom(vs[i], ia)]
    ELSE IF ia.mode = "DRAGGING" THEN [i \in View |-> handle_drag(vs[i], ia)]
    ELSE vs
  ELSE vs

\* the ButtonRelease case: the views after it
canvas_release_views(e, vs, ia) ==
  IF e.button = Button1 THEN
    IF ia.mode = "ZOOM_RECT"
      THEN [vs EXCEPT ![ia.active_view] = handle_zoom(vs[ia.active_view], ia)]
    ELSE IF ia.mode = "DRAGGING"
      THEN [vs EXCEPT ![ia.active_view] = handle_drag(vs[ia.active_view], ia)]
    ELSE vs
  ELSE vs

\* the ButtonRelease case: the interaction state after it
canvas_release(e, ia) ==
  IF e.button = Button1 THEN [ia EXCEPT !.mode = "NONE"] ELSE ia

\* The model follows a visible rectangle while its corners are within
\* MaxExtent of the origin and it is at most MaxGrow wider and higher than the
\* view: handle_drag makes it one wider and one higher on every release.
RectBounded(vs) ==
  \A i \in View :
    /\ Abs(vs[i].volume_x_start) <= MaxExtent /\ Abs(vs[i].volume_x_end) <= MaxExtent
    /\ Abs(vs[i].volume_y_start) <= MaxExtent /\ Abs(vs[i].volume_y_end) <= MaxExtent
    /\ vs[i].volume_x_end - vs[i].volume_x_start <= vs[i].canvas_width + MaxGrow
    /\ vs[i].volume_y_end - vs[i].volume_y_start <= vs[i].canvas_height + MaxGrow

\* One iteration of the loop "while (XPending(display_))" of
\* Viewer::handle_events for the event e.
handle_events(e) ==
  \E W \in {WidgetsOfViews(Len(Volumes), e)} :
    \E vs \in {[i \in View |-> W[i + 1].view]} :
      /\ min_input' = [i \in View |-> W[i + 1].mi]
      /\ max_input' = [i \in View |-> W[i + 1].ma]
      /\ zoom_btn'  = [i \in View |-> W[i + 1].zb]
      /\ drag_btn'  = [i \in View |-> W[i + 1].db]
      /\ scrollbar' = [i \in View |-> W[i + 1].sb]
      /\ xy_radio'  = [i \in View |-> W[i + 1].xy]
      /\ xz_radio'  = [i \in View |-> W[i + 1].xz]
      /\ yz_radio'  = [i \in View |-> W[i + 1].yz]
      /\ IF \E i \in View : W[i + 1].handled
           THEN views_' = vs /\ interaction_' = interaction_
         ELSE IF e.type = "ButtonPress"
           THEN /\ views_' = vs
                /\ interaction_' = canvas_press(e, vs, scrollbar', interaction_)
         ELSE IF e.type = "MotionNotify"
           THEN views_' = vs /\ interaction_' = canvas_motion(e, interaction_)
         ELSE IF e.type = "ButtonRelease"
           THEN /\ views_' = canvas_release_views(e, vs, interaction_)
                /\ interaction_' = canvas_release(e, interaction_)
         ELSE views_' = vs /\ interaction_' = interaction_
      /\ RectBounded(views_')
      /\ UNCHANGED window

\* "widget_handled" after the loop over the views of Viewer::handle_events
widget_handled(e) ==
  \E i \in View : WidgetsOfViews(Len(Volumes), e)[i + 1].handled

\* Window bounds are held in units of 1 / Scale, so that every number a text
\* of at most MaxTextLen characters denotes is an integer of the model.
RECURSIVE Pow10(_)
Pow10(n) == IF n = 0 THEN 1 ELSE 10 * Pow10(n - 1)

Scale == Pow10(MaxTextLen - 1)

\* the number of digits of text from position i on
RECURSIVE DigitRun(_, _)
DigitRun(text, i) ==
  IF i <= Len(text) /\ text[i] \in Digits THEN 1 + DigitRun(text, i + 1) ELSE 0

\* the decimal number the n digits of text from position i on denote
RECURSIVE DigitsValue(_, _, _)
DigitsValue(text, i, n) ==
  IF n = 0 THEN 0
  ELSE 10 * DigitsValue(text, i, n - 1) + DigitVal(text[i + n - 1])

\* std::stof(text) for a text of digits, '.' and '-': the longest prefix that
\* is a decimal number is converted; when there is none, stof throws
\* (ok = FALSE).  val is in units of 1 / Scale.
stof(text) ==
  LET neg == Len(text) >= 1 /\ text[1] = "-"
      first == IF neg THEN 2 ELSE 1
      int_len == DigitRun(text, first)
      dot == first + int_len
      frac_len == IF dot <= Len(text) /\ text[dot] = "."
                    THEN DigitRun(text, dot + 1) ELSE 0
      magnitude == DigitsValue(text, first, int_len) * Scale
                   + (DigitsValue(text, dot + 1, frac_len) * Scale) \div Pow10(frac_len)
  IN  IF int_len + frac_len = 0 THEN [ok |-> FALSE, val |-> 0]
      ELSE [ok |-> TRUE, val |-> IF neg THEN 0 - magnitude ELSE magnitude]

\* void Volume::set_window(float min, float max)
set_window(min, max) == [window_min_ |-> min, window_max_ |-> max]

\* the body of the loop of Viewer::update_colormap for one view: its
\* volume's window afterwards
update_colormap(win, mi, ma) ==
  IF stof(mi.text_).ok /\ stof(ma.text_).ok
    THEN set_window(stof(mi.text_).val, stof(ma.text_).val)
    ELSE win

\* x_pos of Viewer::draw_ui when it reaches the view i
RECURSIVE x_pos(_)
x_pos(i) ==
  IF i = 0 THEN scrollbar_width_
  ELSE x_pos(i - 1) + views_[i - 1].canvas_width + image_spacing_ + scrollbar_width_

\* Viewer::draw_ui: where it puts the scrollbar and the canvas of the view i
draw_ui_scrollbar(i) ==
  [scrollbar[i] EXCEPT !.x_ = x_pos(i) - scrollbar_width_,
                       !.y_ = toolbar_height_ + image_spacing_,
                       !.height_ = views_[i].canvas_height]

draw_ui_view(i) ==
  [views_[i] EXCEPT !.canvas_x = x_pos(i),
                    !.canvas_y = toolbar_height_ + image_spacing_]

\* Viewer::draw_widgets: the toolbar positions of the widgets of the view i;
\* x_pos starts at 10 and advances by 500 per view
place(w, x, y) == [w EXCEPT !.x_ = x, !.y_ = y]

widgets_x_pos(i) == 10 + 500 * i

\* One pass of the loop of Viewer::run after the pending events were handled:
\* update_colormap(), then draw_ui() with draw_widgets().
Frame ==
  /\ window' = [i \in View |-> update_colormap(window[i], min_input[i], max_input[i])]
  /\ scrollbar' = [i \in View |-> draw_ui_scrollbar(i)]
  /\ views_' = [i \in View |-> draw_ui_view(i)]
  /\ min_input' = [i \in View |-> place(min_input[i], widgets_x_pos(i), 5)]
  /\ max_input' = [i \in View |-> place(max_input[i], widgets_x_pos(i) + 100, 5)]
  /\ zoom_btn' = [i \in View |->
                    place(zoom_btn[i], widgets_x_pos(i), max_input[i].height_ + 10)]
  /\ drag_btn' = [i \in View |->
                    place(drag_btn[i], widgets_x_pos(i) + zoom_btn[i].width_ + 10,
                          max_input[i].height_ + 10)]
  /\ xy_radio' = [i \in View |-> place(xy_radio[i], widgets_x_pos(i) + 200, 8)]
  /\ xz_radio' = [i \in View |->
                    place(xz_radio[i],
                          widgets_x_pos(i) + zoom_btn[i].width_ + 10
                            + drag_btn[i].width_ + 10,
                          max_input[i].height_ + 10 + 3)]
  /\ yz_radio' = [i \in View |->
                    place(yz_radio[i],
                          widgets_x_pos(i) + zoom_btn[i].width_ + 10
                            + drag_btn[i].width_ + 10 + 50,
                          max_input[i].height_ + 10 + 3)]
  /\ UNCHANGED <<interaction_, down>>

\* global_min_ and global_max_ of Volume::Volume: the least and the greatest
\* sample of the volume
global_min(d) == CHOOSE m \in {data(i) : i \in 0..(size(d) - 1)} :
                   \A i \in 0..(size(d) - 1) : m <= data(i)

global_max(d) == CHOOSE m \in {data(i) : i \in 0..(size(d) - 1)} :
                   \A i \in 0..(size(d) - 1) : data(i) <= m

\* The pointer positions of the events.  After the first frame the widgets of
\* the view 0 are at: zoom_btn (10, 35, 60 x 25), drag_btn (80, 35, 60 x 25),
\* min_input (10, 5, 80 x 25), max_input (110, 5, 80 x 25); the rectangle
\* is_point_in_view tests is x in 45..52, y in 70..77 for the view 0 and
\* x in 97..103, y in 70..76 for the view 1; the scrollbar of the view 1 takes
\* x in 52..67.
OnZoomBtn == <<20, 40>>

OnDragBtn == <<90, 40>>

InView0 == <<45, 70>>

InView0OnScrollbar1 == <<52, 77>>

OnScrollbar1 == <<60, 72>>

InView1 == <<100, 72>>

OnMinInput == <<20, 10>>

OnMaxInput == <<120, 10>>

Points == {OnZoomBtn, OnDragBtn, InView0, InView0OnScrollbar1, OnScrollbar1, InView1}

TextPoints == {OnMinInput, OnMaxInput}

Buttons == {Button1, OtherButton}

Keys == {"7", ".", "Return"}

\* a ViewState as Viewer::Viewer leaves it for a volume of dimensions d
InitViewState(d) ==
  update_canvas_dimensions(d,
    [plane |-> "XY", current_slice |-> 0,
     volume_x_start |-> 0, volume_x_end |-> 0 - 1,
     volume_y_start |-> 0, volume_y_end |-> 0 - 1,
     canvas_x |-> 0, canvas_y |-> 0, canvas_width |-> 0 - 1, canvas_height |-> 0 - 1,
     zoom_mode |-> FALSE, drag_mode |-> FALSE])

\* the widgets Viewer::Viewer makes
NewTextInput(x, y, width, height) ==
  [x_ |-> x, y_ |-> y, width_ |-> width, height_ |-> height,
   text_ |-> <<>>, has_focus_ |-> FALSE]

NewButton(x, y, width, height) ==
  [x_ |-> x, y_ |-> y, width_ |-> width, height_ |-> height, state_ |-> "NORMAL"]

NewScrollbar(x, y, height) ==
  [x_ |-> x, y_ |-> y, height_ |-> height, min_value_ |-> 0, max_value_ |-> 100,
   current_value_ |-> 0, dragging_ |-> FALSE]

NewRadioButton(x, y) == [x_ |-> x, y_ |-> y, selected_ |-> FALSE]

\* The state after Viewer::Viewer.
InitX11 ==
  /\ views_ = [i \in View |-> InitViewState(volume(i))]
  /\ min_input = [i \in View |-> NewTextInput(0, 0, 80, 25)]
  /\ max_input = [i \in View |-> NewTextInput(90, 0, 80, 25)]
  /\ zoom_btn = [i \in View |-> NewButton(180, 0, 60, 25)]
  /\ drag_btn = [i \in View |-> NewButton(250, 0, 60, 25)]
  /\ scrollbar = [i \in View |->
                    update_scrollbar_range(volume(i), "XY",
                                           NewScrollbar(5, toolbar_height_, 500))]
  /\ xy_radio = [i \in View |-> set_selected(NewRadioButton(400, 5), TRUE)]
  /\ xz_radio = [i \in View |-> NewRadioButton(450, 5)]
  /\ yz_radio = [i \in View |-> NewRadioButton(500, 5)]
  /\ interaction_ = [mode |-> "NONE", start_x |-> 0, start_y |-> 0,
                     current_x |-> 0, current_y |-> 0, active_view |-> 0]
  /\ window = [i \in View |-> set_window(global_min(volume(i)) * Scale,
                                         global_max(volume(i)) * Scale)]
  /\ down = {}

\* The X server delivers a ButtonPress of a button that is up, with the
\* pointer at a point of P.
ButtonPressAt(P) ==
  \E p \in P, b \in Buttons \ down :
    /\ handle_events(Event("ButtonPress", p[1], p[2], b, ""))
    /\ down' = down \cup {b}

\* The X server delivers a ButtonRelease of a button that is down.
ButtonReleaseAt(P) ==
  \E p \in P, b \in down :
    /\ handle_events(Event("ButtonRelease", p[1], p[2], b, ""))
    /\ down' = down \ {b}

\* The X server delivers a MotionNotify.
MotionNotifyAt(P) ==
  \E p \in P :
    /\ handle_events(Event("MotionNotify", p[1], p[2], 0, ""))
    /\ UNCHANGED down

\* The X server delivers a KeyPress; the model follows a text up to MaxTextLen
\* characters.
KeyPress ==
  \E k \in Keys :
    /\ handle_events(Event("KeyPress", 0, 0, 0, k))
    /\ \A i \in View : /\ Len(min_input'[i].text_) <= MaxTextLen
                       /\ Len(max_input'[i].text_) <= MaxTextLen
    /\ UNCHANGED down

ButtonPress == ButtonPressAt(Points)

ButtonRelease == ButtonReleaseAt(Points)

MotionNotify == MotionNotifyAt(Points)

----------------------------------------------------------------------------
(* The FLTK viewer: src/src/interdit.cpp *)

\* ViewerWindow win(800, 600, vol): canvas(200, 40, W - 220, H - 60, vol)
win_W == 800

win_H == 600

canvas_X == 200

canvas_Y == 40

\* canvas.w() and canvas.h()
canvas_W == win_W - 220

canvas_H == win_H - 60

\* (int)f of a float f that is -inf or NaN: what the conversion instruction
\* of the build gives.  INT_MIN on x86-64 for both; AArch64 saturates -inf to
\* INT_MIN and gives 0 for NaN.
INT_MIN == (0 - 2147483647) - 1

IntOfNegInf(b) == INT_MIN

IntOfNaN(b) == IF b = "x86_64" THEN INT_MIN ELSE 0

\* float zoom: the rational num / den, or +inf
Finite(num, den) == [inf |-> FALSE, num |-> num, den |-> den]

Infinite == [inf |-> TRUE, num |-> 1, den |-> 0]

\* n / float(d) for d >= 0
Over(n, d) == IF d = 0 THEN Infinite ELSE Finite(n, d)

\* std::min(a, b) of two positive floats
FloatMin(a, b) ==
  IF a.inf THEN b
  ELSE IF b.inf THEN a
  ELSE IF b.num * a.den < a.num * b.den THEN b ELSE a

\* pan_x = -x1 * zoom for x1 >= 0: the int the float converts to
PanOf(b, x1, zoom) ==
  IF zoom.inf THEN IF x1 = 0 THEN IntOfNaN(b) ELSE IntOfNegInf(b)
  ELSE CDiv((0 - x1) * zoom.num, zoom.den)

\* int img_x = (ix - pan_x) / zoom
ImgOf(i, pan, zoom) == IF zoom.inf THEN 0 ELSE CDiv((i - pan) * zoom.den, zoom.num)

\* the image coordinates below limit that "ix" in 0 .. extent - 1 reaches: the
\* pixels that can reach c lie within one zoom step of pan + c * zoom
ImgCoords(extent, pan, zoom, limit) ==
  IF zoom.inf THEN {c \in 0..(limit - 1) : c = 0 /\ extent > 0}
  ELSE { c \in 0..(limit - 1) :
           \E i \in Max(0, pan + CDiv((c - 1) * zoom.num, zoom.den) - 1)
                    ..Min(extent - 1, pan + CDiv((c + 1) * zoom.num, zoom.den) + 1) :
             ImgOf(i, pan, zoom) = c }

\* void Canvas::draw(): the indices of data its calls of get_value read
draw(v, c) ==
  LET img_w == IF c.orientation = 2 THEN v.ny ELSE v.nx
      img_h == IF c.orientation = 1 THEN v.nz ELSE v.ny
      xs == ImgCoords(canvas_W, c.pan_x, c.zoom, img_w)
      ys == ImgCoords(canvas_H, c.pan_y, c.zoom, img_h)
  IN  { CASE c.orientation = 0 -> LinearIndex(v, img_x, img_y, c.current_slice)
          [] c.orientation = 1 -> LinearIndex(v, img_x, c.current_slice, img_y)
          [] c.orientation = 2 -> LinearIndex(v, c.current_slice, img_x, img_y)
        : img_x \in xs, img_y \in ys }

\* the texts a user leaves in an Fl_Float_Input: up to MaxTextLen of these
\* characters
FlChars == {"5", ".", "-"}

FlTexts == UNION {[1..n -> FlChars] : n \in 0..MaxTextLen}

\* atof(text): the number of the longest prefix that is one, 0.0 when there
\* is none; in units of 1 / Scale
atof(text) == IF stof(text).ok THEN stof(text).val ELSE 0

\* std::to_string(float) of a sample value, which is a whole number here: six
\* decimals
to_string(n) ==
  <<CHOOSE c \in Digits : DigitVal(c) = n, ".", "0", "0", "0", "0", "0", "0">>

\* the pointer positions of the FLTK events, in window coordinates: two
\* corners and the centre of the canvas
FlPoints == {<<canvas_X, canvas_Y>>, <<canvas_X + 290, canvas_Y + 270>>,
             <<canvas_X + canvas_W, canvas_Y + canvas_H>>}

FL_LEFT_MOUSE == 1

FL_RIGHT_MOUSE == FL_LEFT_MOUSE + 2

\* The state after ViewerWindow::ViewerWindow and the first draw, for a volume
\* of dimensions d.
InitFl ==
  /\ \E d \in DimsSet :
       vol = [nx |-> d.nx, ny |-> d.ny, nz |-> d.nz,
              win_min |-> global_min(d) * Scale, win_max |-> global_max(d) * Scale]
  /\ canvas = [zoom |-> Finite(1, 1), pan_x |-> 0, pan_y |-> 0,
               drag_start_x |-> 0, drag_start_y |-> 0, is_dragging |-> FALSE,
               mode |-> "NONE", current_slice |-> 0, orientation |-> 0]
  /\ inputs = [min |-> to_string(global_min(vol)), max |-> to_string(global_max(vol))]
  /\ drawn = draw(vol, canvas)

\* static void zoom_cb(Fl_Widget*, void*)
zoom_cb ==
  /\ canvas' = [canvas EXCEPT !.mode = "ZOOM"]
  /\ UNCHANGED <<vol, inputs, drawn, build>>

\* static void drag_cb(Fl_Widget*, void*)
drag_cb ==
  /\ canvas' = [canvas EXCEPT !.mode = "DRAG"]
  /\ UNCHANGED <<vol, inputs, drawn, build>>

\* The user leaves the text t in min_input or max_input; FLTK calls
\* window_cb, and Canvas::set_window redraws.
window_cb ==
  \E f \in {"min", "max"}, t \in FlTexts :
    /\ inputs' = [inputs EXCEPT ![f] = t]
    /\ vol' = [vol EXCEPT !.win_min = atof(inputs'.min), !.win_max = atof(inputs'.max)]
    /\ drawn' = draw(vol', canvas)
    /\ UNCHANGED <<canvas, build>>

\* The user picks the radio button of the orientation o; FLTK sets it alone
\* in its group and calls orientation_cb.
orientation_cb ==
  \E o \in 0..2 :
    LET xz == (o = 1)
        yz == (o = 2)
        orientation == IF yz THEN 2 ELSE IF xz THEN 1 ELSE 0
    IN  /\ canvas' = [canvas EXCEPT !.orientation = orientation]
        /\ drawn' = draw(vol, canvas')
        /\ UNCHANGED <<vol, inputs, build>>

\* The user moves the scrollbar, whose bounds the constructor set to
\* (0, vol.nz - 1); FLTK calls scroll_cb.
scroll_cb ==
  \E value \in 0..(vol.nz - 1) :
    /\ canvas' = [canvas EXCEPT !.current_slice = value]
    /\ drawn' = draw(vol, canvas')
    /\ UNCHANGED <<vol, inputs, build>>

\* Canvas::handle(FL_PUSH).  A push of another button is left to Fl_Box.
FL_PUSH ==
  \E p \in FlPoints, button \in {FL_LEFT_MOUSE, FL_RIGHT_MOUSE} :
    /\ ~canvas.is_dragging
    /\ canvas' = IF button = FL_LEFT_MOUSE
                   THEN [canvas EXCEPT !.drag_start_x = p[1], !.drag_start_y = p[2],
                                       !.is_dragging = TRUE]
                   ELSE canvas
    /\ UNCHANGED <<vol, inputs, drawn, build>>

\* Canvas::handle(FL_DRAG): FLTK sends it to the widget that took the push.
\* The model follows a pan from within MaxPan of the origin to within MaxPan
\* of it.
FL_DRAG ==
  \E p \in FlPoints :
    /\ canvas.is_dragging
    /\ IF canvas.mode = "DRAG"
         THEN /\ 0 - MaxPan <= canvas.pan_x /\ canvas.pan_x <= MaxPan
              /\ 0 - MaxPan <= canvas.pan_y /\ canvas.pan_y <= MaxPan
              /\ canvas' = [canvas EXCEPT !.pan_x = @ + p[1] - canvas.drag_start_x,
                                          !.pan_y = @ + p[2] - canvas.drag_start_y,
                                          !.drag_start_x = p[1],
                                          !.drag_start_y = p[2]]
              /\ 0 - MaxPan <= canvas'.pan_x /\ canvas'.pan_x <= MaxPan
              /\ 0 - MaxPan <= canvas'.pan_y /\ canvas'.pan_y <= MaxPan
              /\ drawn' = draw(vol, canvas')
         ELSE UNCHANGED <<canvas, drawn>>
    /\ UNCHANGED <<vol, inputs, build>>

\* Canvas::handle(FL_RELEASE)
FL_RELEASE ==
  \E p \in FlPoints :
    /\ canvas.is_dragging
    /\ IF canvas.mode = "ZOOM"
         THEN LET x1 == Min(canvas.drag_start_x, p[1])
                  y1 == Min(canvas.drag_start_y, p[2])
                  x2 == Max(canvas.drag_start_x, p[1])
                  y2 == Max(canvas.drag_start_y, p[2])
                  zoom == FloatMin(Over(canvas_W, x2 - x1), Over(canvas_H, y2 - y1))
              IN  /\ canvas' = [canvas EXCEPT !.zoom = zoom,
                                              !.pan_x = PanOf(build, x1, zoom),
                                              !.pan_y = PanOf(build, y1, zoom),
                                              !.is_dragging = FALSE]
                  /\ drawn' = draw(vol, canvas')
         ELSE /\ canvas' = [canvas EXCEPT !.is_dragging = FALSE]
              /\ UNCHANGED drawn
    /\ UNCHANGED <<vol, inputs, build>>

----------------------------------------------------------------------------
(* The toolbar of the rubber-band viewer: Viewer::create_layout and          *)
(* Viewer::handle_events of src/src/Viewer.cpp 81-193, with the toggle       *)
(* Button of src/unnamed/part_009 and the ImageViewState of part_001.        *)
(* create_layout makes no TextInput: the model has the events that the text  *)
(* inputs of a view do not take.                                             *)

\* const int button_spacing = 10
button_spacing == 10

\* a Button after create_layout: set_toggle(true)
NewToggleButton(x, y, width, height) ==
  [x_ |-> x, y_ |-> y, width_ |-> width, height_ |-> height, state_ |-> "NORMAL",
   is_toggle_ |-> TRUE, toggle_state_ |-> FALSE]

\* bool Button::is_pressed() const
is_pressed(b) == b.state_ = "PRESSED"

\* void Button::set_pressed(bool p) (part_009 114-120)
set_pressed(b, p) == IF p THEN [b EXCEPT !.state_ = "PRESSED"] ELSE b

\* bool Button::handle_event(const XEvent&) (part_009 49-97): the button after
\* the event, the value returned, and whether the callback was called
ToggleButton_handle_event(b, e) ==
  LET inside == InsideRect(e.x, e.y, b.x_, b.y_, b.width_, b.height_)
  IN  IF e.type = "ButtonPress" THEN
        IF e.button = Button1 /\ inside
          THEN [w |-> [b EXCEPT !.state_ = "PRESSED"], ret |-> TRUE, fire |-> FALSE]
          ELSE [w |-> b, ret |-> FALSE, fire |-> FALSE]
      ELSE IF e.type = "ButtonRelease" THEN
        IF e.button # Button1 THEN [w |-> b, ret |-> FALSE, fire |-> FALSE]
        ELSE IF b.state_ = "PRESSED" /\ inside THEN
          [w |-> IF b.is_toggle_
                   THEN [b EXCEPT !.toggle_state_ = ~b.toggle_state_,
                                  !.state_ = IF ~b.toggle_state_ THEN "PRESSED"
                                             ELSE "NORMAL"]
                   ELSE [b EXCEPT !.state_ = "NORMAL"],
           ret |-> TRUE, fire |-> TRUE]
        ELSE [w |-> [b EXCEPT !.state_ = "NORMAL"], ret |-> FALSE, fire |-> FALSE]
      ELSE IF e.type = "MotionNotify" THEN
        [w |-> [b EXCEPT !.state_ = IF inside
                                      THEN IF b.state_ = "PRESSED" THEN "PRESSED"
                                           ELSE "HOVER"
                                      ELSE "NORMAL"],
         ret |-> FALSE, fire |-> FALSE]
      ELSE [w |-> b, ret |-> FALSE, fire |-> FALSE]

\* the zoom_button callback of create_layout, called with the button as the
\* event left it
layout_zoom_callback(view) ==
  [view EXCEPT !.zoom_mode = is_pressed(view.zoom_button),
               !.drag_button = set_pressed(view.drag_button, FALSE)]

\* the drag_button callback of create_layout
layout_drag_callback(view) ==
  [view EXCEPT !.drag_mode = is_pressed(view.drag_button),
               !.zoom_button = set_pressed(view.zoom_button, FALSE)]

\* "zoom_button->handle_event(event) || drag_button->handle_event(event)" for
\* one view: the view afterwards and the value of the condition
layout_widgets(view, e) ==
  LET zb == ToggleButton_handle_event(view.zoom_button, e)
      v1 == [view EXCEPT !.zoom_button = zb.w]
      v2 == IF zb.fire THEN layout_zoom_callback(v1) ELSE v1
      db == ToggleButton_handle_event(v2.drag_button, e)
      v3 == [v2 EXCEPT !.drag_button = db.w]
      v4 == IF db.fire THEN layout_drag_callback(v3) ELSE v3
  IN  IF zb.ret THEN [view |-> v2, ret |-> TRUE] ELSE [view |-> v4, ret |-> db.ret]

\* the loop "for (auto& view : views)" over the views from i on: it returns
\* from handle_events at the first view a widget of which took the event
RECURSIVE layout_loop(_, _, _)
layout_loop(vs, i, e) ==
  IF i > Len(vs) THEN [views |-> vs, ret |-> FALSE]
  ELSE LET r == layout_widgets(vs[i], e)
       IN  IF r.ret THEN [views |-> [vs EXCEPT ![i] = r.view], ret |-> TRUE]
           ELSE layout_loop([vs EXCEPT ![i] = r.view], i + 1, e)

\* n / float(d) for n > 0 and any int d
OverSigned(n, d) ==
  IF d = 0 THEN Infinite ELSE IF d < 0 THEN Finite(0 - n, 0 - d) ELSE Finite(n, d)

\* the "switch (event.type)" of handle_events (Viewer.cpp 157-191)
layout_canvas(l, e) ==
  LET cur == l.current_view + 1
      view == l.views[cur]
  IN  IF e.type = "ButtonPress" THEN
        IF e.button = Button1 /\ view.zoom_mode
          THEN [l EXCEPT !.views[cur].sel_x1 = e.x, !.views[cur].sel_y1 = e.y,
                         !.rubber_band_active = TRUE]
          ELSE l
      ELSE IF e.type = "MotionNotify" THEN
        IF l.rubber_band_active
          THEN [l EXCEPT !.views[cur].sel_x2 = e.x, !.views[cur].sel_y2 = e.y]
          ELSE l
      ELSE IF e.type = "ButtonRelease" THEN
        IF e.button = Button1 /\ l.rubber_band_active
          THEN [l EXCEPT !.views[cur].zoom =
                           FloatMin(OverSigned(volume(l.current_view).nx,
                                               view.sel_x2 - view.sel_x1),
                                    OverSigned(volume(l.current_view).ny,
                                               view.sel_y2 - view.sel_y1)),
                         !.views[cur].pan_x = view.sel_x1,
                         !.views[cur].pan_y = view.sel_y1,
                         !.rubber_band_active = FALSE]
          ELSE l
      ELSE l

\* Viewer::handle_events (Viewer.cpp 134-193) for one pending event
layout_handle_events(l, e) ==
  LET r == layout_loop(l.views, 1, e)
  IN  IF r.ret THEN [l EXCEPT !.views = r.views]
      ELSE layout_canvas([l EXCEPT !.views = r.views], e)

\* The state after Viewer::create_layout for the volumes of Volumes.
InitLayout ==
  /\ layout =
       [views |-> [i \in 1..Len(Volumes) |->
                     [zoom_button |->
                        NewToggleButton(button_spacing + (i - 1) * (180 + button_spacing),
                                        10, 80, 30),
                      drag_button |->
                        NewToggleButton(button_spacing + (i - 1) * (180 + button_spacing)
                                          + 90, 10, 80, 30),
                      zoom |-> Finite(1, 1), pan_x |-> 0, pan_y |-> 0,
                      zoom_mode |-> FALSE, drag_mode |-> FALSE,
                      sel_x1 |-> 0, sel_y1 |-> 0, sel_x2 |-> 0, sel_y2 |-> 0]],
        current_view |-> 0, rubber_band_active |-> FALSE]
  /\ down = {}

\* the pointer positions of the events: on the Zoom and the Drag button of
\* the view 0, on the Zoom button of the view 1, and two below the toolbar
LayoutPoints == {<<20, 20>>, <<110, 20>>, <<210, 20>>, <<300, 300>>, <<307, 314>>}

LayoutButtonPress ==
  \E p \in LayoutPoints, b \in Buttons \ down :
    /\ layout' = layout_handle_events(layout, Event("ButtonPress", p[1], p[2], b, ""))
    /\ down' = down \cup {b}

LayoutButtonRelease ==
  \E p \in LayoutPoints, b \in down :
    /\ layout' = layout_handle_events(layout, Event("ButtonRelease", p[1], p[2], b, ""))
    /\ down' = down \ {b}

\* XSelectInput asks for ButtonMotionMask: the pointer's motion is reported
\* while a button is down
LayoutMotionNotify ==
  \E p \in LayoutPoints :
    /\ down # {}
    /\ layout' = layout_handle_events(layout, Event("MotionNotify", p[1], p[2], 0, ""))
    /\ UNCHANGED down

----------------------------------------------------------------------------
(* Specifications.  Each runs one part of the repository; the variables of  *)
(* the other parts stay as the ...AtRest predicates leave them.             *)

vars ==
  <<views_, min_input, max_input, zoom_btn, drag_btn, scrollbar, xy_radio,
    xz_radio, yz_radio, interaction_, window, down, dims, acc, build, frame,
    vol, canvas, inputs, drawn, layout, gesture, state_, volobj, loaded, tick>>

X11AtRest ==
  /\ views_ = <<>> /\ min_input = <<>> /\ max_input = <<>> /\ zoom_btn = <<>>
  /\ drag_btn = <<>> /\ scrollbar = <<>> /\ xy_radio = <<>> /\ xz_radio = <<>>
  /\ yz_radio = <<>> /\ interaction_ = <<>> /\ window = <<>>

VolumeAtRest == dims = <<>> /\ acc = <<>>

ColormapAtRest == frame = <<>>

FlAtRest == vol = <<>> /\ canvas = <<>> /\ inputs = <<>> /\ drawn = {}

LayoutAtRest == layout = <<>>

GestureAtRest == gesture = <<>>

KeysAtRest == state_ = <<>>

ObjectAtRest == volobj = <<>>

TickAtRest == tick = <<>>

\* The X11 viewer with the pointer at work on the toolbar buttons, the views
\* and a scrollbar.
OthersAtRest ==
  /\ VolumeAtRest /\ build = "x86_64" /\ ColormapAtRest /\ FlAtRest /\ LayoutAtRest
  /\ GestureAtRest /\ KeysAtRest /\ ObjectAtRest /\ TickAtRest

Init == loaded = Volumes /\ InitX11 /\ OthersAtRest

\* the viewer constructed with a first volume whose planes differ in width
InitWide == loaded = WideVolumes /\ InitX11 /\ OthersAtRest

varsNotX11 ==
  <<dims, acc, build, frame, vol, canvas, inputs, drawn, layout, gesture, state_, volobj, loaded, tick>>

Next ==
  \/ ButtonPress /\ UNCHANGED varsNotX11
  \/ ButtonRelease /\ UNCHANGED varsNotX11
  \/ MotionNotify /\ UNCHANGED varsNotX11
  \/ Frame /\ UNCHANGED varsNotX11

Spec == Init /\ [][Next]_vars

\* The X11 viewer with the pointer and the keyboard at work on the text inputs.
NextText ==
  \/ ButtonPressAt(TextPoints) /\ UNCHANGED varsNotX11
  \/ ButtonReleaseAt(TextPoints) /\ UNCHANGED varsNotX11
  \/ KeyPress /\ UNCHANGED varsNotX11
  \/ Frame /\ UNCHANGED varsNotX11

SpecText == Init /\ [][NextText]_vars

\* The two sample accessors, called with coordinates in and around the volume.
InitAccessors ==
  /\ InitVolume
  /\ X11AtRest /\ down = {} /\ build = "x86_64" /\ ColormapAtRest /\ FlAtRest
  /\ LayoutAtRest /\ GestureAtRest /\ KeysAtRest /\ ObjectAtRest /\ loaded = Volumes /\ TickAtRest

varsNotVolume ==
  <<views_, min_input, max_input, zoom_btn, drag_btn, scrollbar, xy_radio,
    xz_radio, yz_radio, interaction_, window, down, build, frame, vol, canvas,
    inputs, drawn, layout, gesture, state_, volobj, loaded, tick>>

NextAccessors ==
  \/ CallAt /\ UNCHANGED varsNotVolume
  \/ CallGetValue /\ UNCHANGED varsNotVolume

SpecVolume == InitAccessors /\ [][NextAccessors]_vars

\* The intensity mappings, each over every window and sample of the bounds.
InitIntensity ==
  /\ InitColormap
  /\ X11AtRest /\ down = {} /\ VolumeAtRest /\ FlAtRest /\ LayoutAtRest
  /\ GestureAtRest /\ KeysAtRest /\ ObjectAtRest /\ loaded = Volumes /\ TickAtRest

varsNotColormap ==
  <<views_, min_input, max_input, zoom_btn, drag_btn, scrollbar, xy_radio,
    xz_radio, yz_radio, interaction_, window, down, dims, acc, vol, canvas,
    inputs, drawn, layout, gesture, state_, volobj, loaded, tick>>

NextIntensity ==
  \/ DrawVolume /\ UNCHANGED varsNotColormap
  \/ DrawFrame /\ UNCHANGED varsNotColormap

SpecColormap == InitIntensity /\ [][NextIntensity]_vars

\* The FLTK viewer.
InitCanvas ==
  /\ InitFl /\ build \in Builds
  /\ X11AtRest /\ down = {} /\ VolumeAtRest /\ ColormapAtRest /\ LayoutAtRest
  /\ GestureAtRest /\ KeysAtRest /\ ObjectAtRest /\ loaded = Volumes /\ TickAtRest

varsNotFl ==
  <<views_, min_input, max_input, zoom_btn, drag_btn, scrollbar, xy_radio,
    xz_radio, yz_radio, interaction_, window, down, dims, acc, frame, layout,
    gesture, state_, volobj, loaded, tick>>

\* the pointer at work on the canvas, the mode buttons, the orientation and
\* the slice
NextCanvas ==
  \/ zoom_cb /\ UNCHANGED varsNotFl
  \/ drag_cb /\ UNCHANGED varsNotFl
  \/ orientation_cb /\ UNCHANGED varsNotFl
  \/ scroll_cb /\ UNCHANGED varsNotFl
  \/ FL_PUSH /\ UNCHANGED varsNotFl
  \/ FL_DRAG /\ UNCHANGED varsNotFl
  \/ FL_RELEASE /\ UNCHANGED varsNotFl

SpecCanvas == InitCanvas /\ [][NextCanvas]_vars

\* the window inputs, the orientation and the slice
NextWindow ==
  \/ window_cb /\ UNCHANGED varsNotFl
  \/ orientation_cb /\ UNCHANGED varsNotFl
  \/ scroll_cb /\ UNCHANGED varsNotFl

SpecWindow == InitCanvas /\ [][NextWindow]_vars

\* The toolbar of the rubber-band viewer.
InitToolbar ==
  /\ InitLayout
  /\ X11AtRest /\ VolumeAtRest /\ build = "x86_64" /\ ColormapAtRest /\ FlAtRest
  /\ GestureAtRest /\ KeysAtRest /\ ObjectAtRest /\ loaded = Volumes /\ TickAtRest

varsNotLayout ==
  <<views_, min_input, max_input, zoom_btn, drag_btn, scrollbar, xy_radio,
    xz_radio, yz_radio, interaction_, window, dims, acc, build, frame, vol,
    canvas, inputs, drawn, gesture, state_, volobj, loaded, tick>>

NextLayout ==
  \/ LayoutButtonPress /\ UNCHANGED varsNotLayout
  \/ LayoutButtonRelease /\ UNCHANGED varsNotLayout
  \/ LayoutMotionNotify /\ UNCHANGED varsNotLayout

SpecLayout == InitToolbar /\ [][NextLayout]_vars

----------------------------------------------------------------------------
(* The box zoom of the X11 viewer as a computation: Viewer::handle_zoom on  *)
(* the view 0 after its first frame, one gesture after another.             *)

\* the volumes of the probed view
ZoomDims == {[nx |-> 400, ny |-> 300, nz |-> 1], [nx |-> 40, ny |-> 30, nz |-> 2]}

\* the pointer positions of a gesture, relative to the corner of the canvas:
\* to the right of the scrollbar's column, which takes the events in it
GestureOffsets == {1, 9, 50, 150}

\* Viewer::draw_volume: the image column the canvas column x shows
img_x_of(view, x) ==
  view.volume_x_start + CDiv(x * view.volume_x_end, view.canvas_width)

\* Viewer::draw_volume: the image row the canvas row y shows
img_y_of(view, y) ==
  view.volume_y_start + CDiv(y * view.volume_y_end, view.canvas_height)

\* the view 0 after Viewer::Viewer and the first Viewer::draw_ui
FramedView(d) ==
  [InitViewState(d) EXCEPT !.canvas_x = scrollbar_width_,
                           !.canvas_y = toolbar_height_ + image_spacing_]

InitGesture ==
  \E d \in ZoomDims :
    gesture = [fn |-> "none", n |-> 0, before |-> FramedView(d),
               start_x |-> 0, start_y |-> 0, current_x |-> 0, current_y |-> 0,
               after |-> FramedView(d)]

\* A box zoom on the view as the last gesture left it: the press at
\* (start_x, start_y), the moves up to (current_x, current_y), the release.
BoxZoomGesture ==
  \E sx \in GestureOffsets, sy \in GestureOffsets,
     cx \in GestureOffsets, cy \in GestureOffsets :
    LET view == gesture.after
        ia == [mode |-> "ZOOM_RECT", active_view |-> 0,
               start_x |-> view.canvas_x + sx, start_y |-> view.canvas_y + sy,
               current_x |-> view.canvas_x + cx, current_y |-> view.canvas_y + cy]
    IN  /\ gesture.n < MaxGestures
        /\ gesture' =
                   [fn |-> "handle_zoom", n |-> gesture.n + 1, before |-> view,
                    start_x |-> ia.start_x, start_y |-> ia.start_y,
                    current_x |-> ia.current_x, current_y |-> ia.current_y,
                    after |-> handle_zoom(view, ia)]

varsNotGesture ==
  <<views_, min_input, max_input, zoom_btn, drag_btn, scrollbar, xy_radio,
    xz_radio, yz_radio, interaction_, window, down, dims, acc, build, frame,
    vol, canvas, inputs, drawn, layout, state_, volobj, loaded, tick>>

InitZoom ==
  /\ InitGesture
  /\ X11AtRest /\ down = {} /\ VolumeAtRest /\ build = "x86_64" /\ ColormapAtRest
  /\ FlAtRest /\ LayoutAtRest /\ KeysAtRest /\ ObjectAtRest /\ loaded = Volumes /\ TickAtRest

NextZoom == BoxZoomGesture /\ UNCHANGED varsNotGesture

SpecZoom == InitZoom /\ [][NextZoom]_vars

\* Pointer positions on the widgets that choose the slice and the plane of the
\* view 0 after the first frame: its scrollbar takes x in 0..15 from y = 70,
\* xz_radio is at (150, 38), yz_radio at (200, 38) and xy_radio at (210, 8),
\* each 30 x 16.
OnScrollbar0Top == <<5, 70>>

OnScrollbar0Low == <<5, 77>>

OnXyRadio0 == <<215, 10>>

OnXzRadio0 == <<155, 40>>

OnYzRadio0 == <<205, 40>>

PlanePoints == {OnScrollbar0Top, OnScrollbar0Low, OnXyRadio0, OnXzRadio0, OnYzRadio0}

\* Viewer::run with the pointer on the scrollbar and the radio buttons of the
\* view 0.
NextPlane ==
  \/ ButtonPressAt(PlanePoints) /\ UNCHANGED varsNotX11
  \/ ButtonReleaseAt(PlanePoints) /\ UNCHANGED varsNotX11
  \/ MotionNotifyAt(PlanePoints) /\ UNCHANGED varsNotX11
  \/ Frame /\ UNCHANGED varsNotX11

SpecPlane == Init /\ [][NextPlane]_vars

\* Viewer::run with the pointer on the Drag button, the canvas and the radio
\* buttons of the view 0: pans, and plane changes after them.
RadioPoints == {OnDragBtn, InView0, OnXyRadio0, OnXzRadio0, OnYzRadio0}

NextRadio ==
  \/ ButtonPressAt(RadioPoints) /\ UNCHANGED varsNotX11
  \/ ButtonReleaseAt(RadioPoints) /\ UNCHANGED varsNotX11
  \/ MotionNotifyAt(RadioPoints) /\ UNCHANGED varsNotX11
  \/ Frame /\ UNCHANGED varsNotX11

SpecRadio == Init /\ [][NextRadio]_vars

\* a point of the canvas of the view 1 as the first frame of the viewer of
\* WideVolumes lays it out (hit rectangle 97..103 x 70..76), left of the hit
\* rectangle the view 1 has once the view 0 shows its 9-column YZ plane
InFirstLayoutOfView1 == <<97, 72>>

ReplanePoints == PlanePoints \cup {InFirstLayoutOfView1}

\* Viewer::run with the pointer on the scrollbar and the radio buttons of the
\* view 0 and on the canvas of the view 1: handle_events takes every pending
\* event before draw_ui lays the views out again.
NextReplane ==
  \/ ButtonPressAt(ReplanePoints) /\ UNCHANGED varsNotX11
  \/ ButtonReleaseAt(ReplanePoints) /\ UNCHANGED varsNotX11
  \/ MotionNotifyAt(ReplanePoints) /\ UNCHANGED varsNotX11
  \/ Frame /\ UNCHANGED varsNotX11

SpecReplane == InitWide /\ [][NextReplane]_vars

\* A pointer position below and to the right of every view, on no widget.
OutsideViews == <<300, 300>>

CanvasPoints == {OnZoomBtn, OnDragBtn, InView0, InView1, OutsideViews}

\* Viewer::run with the pointer on the mode buttons of the view 0, inside the
\* views and outside every view.
NextCanvasPoints ==
  \/ ButtonPressAt(CanvasPoints) /\ UNCHANGED varsNotX11
  \/ ButtonReleaseAt(CanvasPoints) /\ UNCHANGED varsNotX11
  \/ MotionNotifyAt(CanvasPoints) /\ UNCHANGED varsNotX11
  \/ Frame /\ UNCHANGED varsNotX11

SpecOutside == Init /\ [][NextCanvasPoints]_vars

\* view_x and view_y of Viewer::is_point_in_view: the upper left corner of the
\* rectangle tested for the view whose scrollbar is sb
view_x_of(sb) == sb.x_ + scrollbar_width_ + image_spacing_

view_y_of == toolbar_height_ + image_spacing_

----------------------------------------------------------------------------
(* The keyboard viewer: one visualization state for the window, changed by  *)
(* the keys and by a drag of the left button (src/src/Viewer.cpp 206-400,   *)
(* state_ of src/unnamed/part_002 64-77).                                   *)

\* the dimensions of volumes_.front()
KeyVolume == [nx |-> 4, ny |-> 2, nz |-> 2]

NavKeys == {"Left", "Right", "x", "y", "z", "plus", "minus"}

\* the pointer positions of the drags
DragPoints == {<<10, 10>>, <<11, 10>>, <<10, 12>>}

\* the columns and rows of the image draw_frame converts
ScreenPoints == 0..MaxScreen

RECURSIVE GCD(_, _)
GCD(a, b) == IF b = 0 THEN a ELSE GCD(b, a % b)

\* float zoom of state_: the rational num / den in lowest terms
Ratio(num, den) == [num |-> num \div GCD(num, den), den |-> den \div GCD(num, den)]

\* state_.zoom *= 1.2f
zoom_in(zoom) == Ratio(zoom.num * 6, zoom.den * 5)

\* std::max(0.1f, state_.zoom / 1.2f)
zoom_out(zoom) ==
  LET q == Ratio(zoom.num * 5, zoom.den * 6)
  IN  IF q.num * 10 < q.den THEN Ratio(1, 10) ELSE q

\* state_ as its member initializers leave it
InitState ==
  [slice |-> 0, plane |-> "XY", zoom |-> Ratio(1, 1), pan_x |-> 0, pan_y |-> 0,
   dragging |-> FALSE, drag_start_x |-> 0, drag_start_y |-> 0,
   pan_start_x |-> 0, pan_start_y |-> 0]

\* int Viewer::get_max_slice() const
get_max_slice(s) == SliceExtent(KeyVolume, s.plane) - 1

\* void Viewer::handle_key_press(XKeyEvent&)
handle_key_press(key, s) ==
  CASE key = "Left"  -> [s EXCEPT !.slice = Max(0, s.slice - 1)]
    [] key = "Right" -> [s EXCEPT !.slice = Min(get_max_slice(s), s.slice + 1)]
    [] key = "x"     -> [s EXCEPT !.plane = "XY"]
    [] key = "y"     -> [s EXCEPT !.plane = "XZ"]
    [] key = "z"     -> [s EXCEPT !.plane = "YZ"]
    [] key = "plus"  -> [s EXCEPT !.zoom = zoom_in(s.zoom)]
    [] key = "minus" -> [s EXCEPT !.zoom = zoom_out(s.zoom)]
    [] OTHER         -> s

\* void Viewer::handle_button_press(XButtonEvent&)
handle_button_press(e, s) ==
  IF e.button = Button1
    THEN [s EXCEPT !.dragging = TRUE,
                   !.drag_start_x = e.x, !.drag_start_y = e.y,
                   !.pan_start_x = s.pan_x, !.pan_start_y = s.pan_y]
    ELSE s

\* void Viewer::handle_button_release(XButtonEvent&)
handle_button_release(e, s) ==
  IF e.button = Button1 THEN [s EXCEPT !.dragging = FALSE] ELSE s

\* void Viewer::handle_motion(XMotionEvent&)
handle_motion(e, s) ==
  IF s.dragging
    THEN [s EXCEPT !.pan_x = s.pan_start_x + (e.x - s.drag_start_x),
                   !.pan_y = s.pan_start_y + (e.y - s.drag_start_y)]
    ELSE s

\* draw_frame: vol_x = static_cast<int>((x - state_.pan_x) / state_.zoom), the
\* conversion of a screen coordinate to a volume coordinate
screenToVolume(x, pan, zoom) == CDiv((x - pan) * zoom.den, zoom.num)

\* draw_frame: screen_x = static_cast<int>((x * state_.zoom) + state_.pan_x),
\* the conversion of a volume coordinate to a screen coordinate
volumeToScreen(x, pan, zoom) == CDiv(x * zoom.num + pan * zoom.den, zoom.den)

\* The model follows the zoom while the terms of its ratio are at most
\* MaxZoomTerm and the pan while it is within MaxShift of the origin.
KeysBounded(s) ==
  /\ s.zoom.num <= MaxZoomTerm /\ s.zoom.den <= MaxZoomTerm
  /\ Abs(s.pan_x) <= MaxShift /\ Abs(s.pan_y) <= MaxShift

InitKeys == state_ = InitState /\ down = {}

\* a KeyPress reaches handle_key_press
KeyTyped ==
  \E key \in NavKeys :
    /\ state_' = handle_key_press(key, state_)
    /\ KeysBounded(state_')
    /\ UNCHANGED down

\* a ButtonPress of a button that is up reaches handle_button_press
DragPress ==
  \E p \in DragPoints, b \in Buttons \ down :
    /\ state_' = handle_button_press(Event("ButtonPress", p[1], p[2], b, ""), state_)
    /\ down' = down \cup {b}

\* a ButtonRelease of a button that is down reaches handle_button_release
DragRelease ==
  \E p \in DragPoints, b \in down :
    /\ state_' = handle_button_release(Event("ButtonRelease", p[1], p[2], b, ""), state_)
    /\ down' = down \ {b}

\* a MotionNotify reaches handle_motion; the window selects ButtonMotionMask,
\* so the pointer moves are reported while a button is down
DragMotion ==
  \E p \in DragPoints :
    /\ down # {}
    /\ state_' = handle_motion(Event("MotionNotify", p[1], p[2], 0, ""), state_)
    /\ KeysBounded(state_')
    /\ UNCHANGED down

varsNotKeys ==
  <<views_, min_input, max_input, zoom_btn, drag_btn, scrollbar, xy_radio,
    xz_radio, yz_radio, interaction_, window, dims, acc, build, frame,
    vol, canvas, inputs, drawn, layout, gesture, volobj, loaded, tick>>

InitKeyboard ==
  /\ InitKeys
  /\ X11AtRest /\ VolumeAtRest /\ build = "x86_64" /\ ColormapAtRest
  /\ FlAtRest /\ LayoutAtRest /\ GestureAtRest /\ ObjectAtRest /\ loaded = Volumes /\ TickAtRest

NextKeys ==
  \/ KeyTyped /\ UNCHANGED varsNotKeys
  \/ DragPress /\ UNCHANGED varsNotKeys
  \/ DragRelease /\ UNCHANGED varsNotKeys
  \/ DragMotion /\ UNCHANGED varsNotKeys

SpecKeys == InitKeyboard /\ [][NextKeys]_vars

----------------------------------------------------------------------------
(* The Volume object and its window setter (src/src/Volume.cpp 7-43,        *)
(* src/unnamed/part_005).                                                   *)

\* Volume::Volume for a file of the dimensions d: the members after the
\* constructor, reset_window() included
NewVolume(d) ==
  [nx_ |-> d.nx, ny_ |-> d.ny, nz_ |-> d.nz,
   data_ |-> [i \in 0..(size(d) - 1) |-> data(i)],
   global_min_ |-> global_min(d), global_max_ |-> global_max(d),
   window_min_ |-> global_min(d), window_max_ |-> global_max(d)]

\* a setter that puts the bounds in order before it stores them
set_window_ordered(v, min, max) ==
  [v EXCEPT !.window_min_ = Min(min, max), !.window_max_ = Max(min, max)]

\* void Volume::set_window(float min, float max), on the object v
Volume_set_window(v, min, max) ==
  [v EXCEPT !.window_min_ = min, !.window_max_ = max]

\* void reset_window() { set_window(global_min_, global_max_); }
reset_window(v) == Volume_set_window(v, v.global_min_, v.global_max_)

InitObject == \E d \in DimsSet : volobj = NewVolume(d)

\* a caller sets the window to a pair of Windows, in any order
SetWindow ==
  \E min, max \in Windows : volobj' = Volume_set_window(volobj, min, max)

\* a caller resets the window
ResetWindow == volobj' = reset_window(volobj)

varsNotObject ==
  <<views_, min_input, max_input, zoom_btn, drag_btn, scrollbar, xy_radio,
    xz_radio, yz_radio, interaction_, window, down, dims, acc, build, frame,
    vol, canvas, inputs, drawn, layout, gesture, state_, loaded, tick>>

InitSetter ==
  /\ InitObject
  /\ X11AtRest /\ down = {} /\ VolumeAtRest /\ build = "x86_64" /\ ColormapAtRest
  /\ FlAtRest /\ LayoutAtRest /\ GestureAtRest /\ KeysAtRest /\ loaded = Volumes /\ TickAtRest

NextSetter ==
  \/ SetWindow /\ UNCHANGED varsNotObject
  \/ ResetWindow /\ UNCHANGED varsNotObject

SpecSetter == InitSetter /\ [][NextSetter]_vars

----------------------------------------------------------------------------
(* The pixels Viewer::draw_volume fills (src/src/Viewer.cpp 706-766).       *)

\* the switch (view.plane) of draw_volume: the sample shown for the image
\* point (img_x, img_y)
plane_sample(d, view, img_x, img_y) ==
  CASE view.plane = "XY" -> at(d, img_x, img_y, view.current_slice)
    [] view.plane = "XZ" -> at(d, img_x, view.current_slice, img_y)
    [] view.plane = "YZ" -> at(d, view.current_slice, img_x, img_y)

\* void Viewer::draw_volume(const ViewState&, int x_base, int y_base): the
\* calls of XFillRectangle it makes, each with the window pixel and the
\* intensity of the foreground.  win is the window of the view's volume, in
\* units of 1 / Scale.
draw_volume(d, view, win, b, x_base, y_base) ==
  { [x |-> x_base + x, y |-> y_base + y,
     intensity |-> intensity(b, Scale * plane_sample(d, view, img_x_of(view, x),
                                                     img_y_of(view, y)).value,
                             win.window_min_, win.window_max_)] :
      <<x, y>> \in { p \in (0..(view.canvas_width - 1)) \X (0..(view.canvas_height - 1)) :
                       /\ x_base + p[1] >= 0 /\ x_base + p[1] < 800
                       /\ y_base + p[2] >= toolbar_height_ /\ y_base + p[2] < 600 } }

\* Viewer::draw_frame (src/src/Viewer.cpp 288-335) for the image point (x, y):
\* whether it reads a sample (the point converts into the plane), and the
\* pixel of image_buffer_ it assigns; the image is 800 x 600
draw_frame_pixel(s, x, y) ==
  LET vol_x == screenToVolume(x, s.pan_x, s.zoom)
      vol_y == screenToVolume(y, s.pan_y, s.zoom)
      screen_x == volumeToScreen(x, s.pan_x, s.zoom)
      screen_y == volumeToScreen(y, s.pan_y, s.zoom)
  IN  [inside |-> /\ vol_x >= 0 /\ vol_x < get_view_width(KeyVolume, s.plane)
                  /\ vol_y >= 0 /\ vol_y < get_view_height(KeyVolume, s.plane),
       written |-> /\ screen_x >= 0 /\ screen_x < 800
                   /\ screen_y >= 0 /\ screen_y < 600,
       x |-> screen_x, y |-> screen_y]

\* the image columns and rows whose pixel can land on a ScreenPoints column or
\* row at the zooms and pans of the bounds
SourcePoints == 0..MaxSource

\* the image columns (rows) draw_frame assigns to the buffer column (row) sx:
\* those x with screen_x = sx
frame_sources(sx, pan, zoom) ==
  {x \in SourcePoints : volumeToScreen(x, pan, zoom) = sx}

\* image_buffer_ at (sx, sy) after the loops of Viewer::draw_frame: unset when
\* no image point is assigned to it, else the sample value of the last image
\* point of the scan (rows outermost, both ascending) that is assigned to it
image_buffer_at(s, sx, sy) ==
  LET xs == frame_sources(sx, s.pan_x, s.zoom)
      ys == frame_sources(sy, s.pan_y, s.zoom)
  IN  IF xs = {} \/ ys = {} THEN [set |-> FALSE, value |-> 0]
      ELSE LET x == CHOOSE a \in xs : \A b \in xs : b <= a
               y == CHOOSE a \in ys : \A b \in ys : b <= a
           IN  [set |-> TRUE,
                value |-> IF draw_frame_pixel(s, x, y).inside
                            THEN plane_sample(KeyVolume,
                                   [plane |-> s.plane, current_slice |-> s.slice],
                                   screenToVolume(x, s.pan_x, s.zoom),
                                   screenToVolume(y, s.pan_y, s.zoom)).value
                            ELSE 0]

----------------------------------------------------------------------------
(* One pass of the loop of Viewer::run of the rubber-band viewer            *)
(* (src/src/Viewer.cpp 61-79): handle_events on the events that are         *)
(* pending, then the redraw.                                                *)

\* the pointer positions of the pending events: on the Zoom button of the
\* view 0 and below the toolbar
TickPoints == {<<20, 20>>, <<300, 300>>}

\* Viewer::handle_events (Viewer.cpp 134-193) on the pending events q: the
\* loop "while (XPending(display_))" takes them in turn, and the "return" of
\* the widget loop leaves handle_events with the rest still pending
RECURSIVE layout_drain(_, _)
layout_drain(l, q) ==
  IF q = <<>> THEN [layout |-> l, pending |-> q]
  ELSE LET r == layout_loop(l.views, 1, Head(q))
       IN  IF r.ret THEN [layout |-> [l EXCEPT !.views = r.views], pending |-> Tail(q)]
           ELSE layout_drain(layout_canvas([l EXCEPT !.views = r.views], Head(q)),
                             Tail(q))

InitPending == tick = [pending |-> <<>>, deferred |-> 0]

\* the X server queues a ButtonPress of a button that is up
PressQueued ==
  \E p \in TickPoints, b \in Buttons \ down :
    /\ Len(tick.pending) < MaxPending
    /\ tick' = [tick EXCEPT !.pending = Append(@, Event("ButtonPress", p[1], p[2], b, ""))]
    /\ down' = down \cup {b}
    /\ UNCHANGED layout

\* the X server queues a ButtonRelease of a button that is down
ReleaseQueued ==
  \E p \in TickPoints, b \in down :
    /\ Len(tick.pending) < MaxPending
    /\ tick' = [tick EXCEPT !.pending = Append(@, Event("ButtonRelease", p[1], p[2], b, ""))]
    /\ down' = down \ {b}
    /\ UNCHANGED layout

\* the X server queues a MotionNotify while a button is down
MotionQueued ==
  \E p \in TickPoints :
    /\ Len(tick.pending) < MaxPending
    /\ down # {}
    /\ tick' = [tick EXCEPT !.pending = Append(@, Event("MotionNotify", p[1], p[2], 0, ""))]
    /\ UNCHANGED <<layout, down>>

\* one pass of the loop of Viewer::run: handle_events(), then
\* update_colormap_from_inputs() and draw_frame(); deferred counts the events
\* that were pending when the pass began and are still pending at its redraw
RunPass ==
  \E r \in {layout_drain(layout, tick.pending)} :
    /\ layout' = r.layout
    /\ tick' = [pending |-> r.pending, deferred |-> Len(r.pending)]
    /\ UNCHANGED down

varsNotTick ==
  <<views_, min_input, max_input, zoom_btn, drag_btn, scrollbar, xy_radio,
    xz_radio, yz_radio, interaction_, window, dims, acc, build, frame, vol,
    canvas, inputs, drawn, gesture, state_, volobj, loaded>>

InitTick ==
  /\ InitLayout /\ InitPending
  /\ X11AtRest /\ VolumeAtRest /\ build = "x86_64" /\ ColormapAtRest /\ FlAtRest
  /\ GestureAtRest /\ KeysAtRest /\ ObjectAtRest /\ loaded = Volumes

NextTick ==
  \/ PressQueued /\ UNCHANGED varsNotTick
  \/ ReleaseQueued /\ UNCHANGED varsNotTick
  \/ MotionQueued /\ UNCHANGED varsNotTick
  \/ RunPass /\ UNCHANGED varsNotTick

SpecTick == InitTick /\ [][NextTick]_vars

----------------------------------------------------------------------------
(* The viewer of src/unnamed/part_007: every view has two text inputs and   *)
(* two buttons in the toolbar, and handle_events offers an event to them    *)
(* with a short-circuit "||" and leaves the loop over the views at the      *)
(* first widget that takes it.  Its state is held in views_, min_input,     *)
(* max_input, zoom_btn, drag_btn, interaction_ and window.                  *)

\* "min_input->handle_event(event) || max_input->handle_event(event) ||
\* zoom_btn->handle_event(event) || drag_btn->handle_event(event)" for the
\* widgets w of one view: a widget sees the event only when none before it
\* returned true
short_widgets(w, e) ==
  LET mi == TextInput_handle_event(w.mi, e)
      ma == TextInput_handle_event(w.ma, e)
      zb == Button_handle_event(w.zb, e)
      db == Button_handle_event(w.db, e)
  IN  IF mi.ret THEN [w EXCEPT !.mi = mi.w, !.ret = TRUE]
      ELSE IF ma.ret THEN [w EXCEPT !.mi = mi.w, !.ma = ma.w, !.ret = TRUE]
      ELSE IF zb.ret THEN [w EXCEPT !.mi = mi.w, !.ma = ma.w, !.zb = zb.w, !.ret = TRUE]
      ELSE [mi |-> mi.w, ma |-> ma.w, zb |-> zb.w, db |-> db.w, ret |-> db.ret]

\* the loop "for (auto& view : views_)" with its break, from the view i on:
\* the widgets of all views afterwards, and widget_handled
RECURSIVE short_loop(_, _, _)
short_loop(ws, i, e) ==
  IF i \notin View THEN [ws |-> ws, handled |-> FALSE]
  ELSE LET r == short_widgets(ws[i], e)
       IN  IF r.ret THEN [ws |-> [ws EXCEPT ![i] = r], handled |-> TRUE]
           ELSE short_loop([ws EXCEPT ![i] = r], i + 1, e)

\* void Viewer::handle_drag() of part_007, from the view i on
RECURSIVE short_handle_drag(_, _, _, _)
short_handle_drag(vs, dbs, ia, i) ==
  IF i \notin View THEN [views |-> vs, ia |-> ia]
  ELSE IF is_pressed(dbs[i])
    THEN short_handle_drag(
           [vs EXCEPT ![i].pan_x = @ + ia.current_x - ia.start_x,
                      ![i].pan_y = @ + ia.current_y - ia.start_y],
           dbs, [ia EXCEPT !.start_x = ia.current_x, !.start_y = ia.current_y], i + 1)
    ELSE short_handle_drag(vs, dbs, ia, i + 1)

\* void Viewer::handle_zoom() of part_007
short_handle_zoom(vs, zbs, ia) ==
  LET dx == ia.current_x - ia.start_x
      dy == ia.current_y - ia.start_y
  IN  [i \in View |->
         IF is_pressed(zbs[i]) /\ dx > 10 /\ dy > 10
           THEN [vs[i] EXCEPT !.zoom = FloatMin(Finite(volume(i).nx, dx),
                                                Finite(volume(i).ny, dy)),
                              !.pan_x = ia.start_x,
                              !.pan_y = ia.start_y - toolbar_height_]
           ELSE vs[i]]

\* one iteration of the loop "while (XPending(display_))" of
\* Viewer::handle_events of part_007 for the event e
short_handle_events(e) ==
  \E r \in {short_loop([i \in View |-> [mi |-> min_input[i], ma |-> max_input[i],
                                        zb |-> zoom_btn[i], db |-> drag_btn[i],
                                        ret |-> FALSE]], 0, e)} :
    /\ min_input' = [i \in View |-> r.ws[i].mi]
    /\ max_input' = [i \in View |-> r.ws[i].ma]
    /\ zoom_btn' = [i \in View |-> r.ws[i].zb]
    /\ drag_btn' = [i \in View |-> r.ws[i].db]
    /\ IF r.handled THEN UNCHANGED <<views_, interaction_>>
       ELSE IF e.type = "ButtonPress" /\ e.button = Button1 THEN
         /\ interaction_' = [interaction_ EXCEPT !.dragging = TRUE,
                                                 !.start_x = e.x, !.start_y = e.y]
         /\ UNCHANGED views_
       ELSE IF e.type = "MotionNotify" /\ interaction_.dragging THEN
         \E d \in {short_handle_drag(views_, drag_btn',
                                     [interaction_ EXCEPT !.current_x = e.x,
                                                          !.current_y = e.y], 0)} :
           views_' = d.views /\ interaction_' = d.ia
       ELSE IF e.type = "ButtonRelease" /\ e.button = Button1 THEN
         /\ interaction_' = [interaction_ EXCEPT !.dragging = FALSE]
         /\ views_' = short_handle_zoom(views_, zoom_btn', interaction_)
       ELSE UNCHANGED <<views_, interaction_>>
    /\ UNCHANGED window

\* the viewer after Viewer::Viewer of part_007 (lines 25-35)
InitShort ==
  /\ views_ = [i \in View |-> [zoom |-> Finite(1, 1), pan_x |-> 0, pan_y |-> 0]]
  /\ min_input = [i \in View |-> NewTextInput(0, 0, 80, 25)]
  /\ max_input = [i \in View |-> NewTextInput(90, 0, 80, 25)]
  /\ zoom_btn = [i \in View |-> NewButton(180, 0, 60, 25)]
  /\ drag_btn = [i \in View |-> NewButton(250, 0, 60, 25)]
  /\ interaction_ = [dragging |-> FALSE, start_x |-> 0, start_y |-> 0,
                     current_x |-> 0, current_y |-> 0]
  /\ window = [i \in View |-> set_window(global_min(volume(i)) * Scale,
                                         global_max(volume(i)) * Scale)]
  /\ down = {}

\* one pass of the loop of Viewer::run of part_007 after the pending events
\* were handled: update_colormap(), then draw_ui() with draw_widgets()
ShortFrame ==
  /\ window' = [i \in View |-> update_colormap(window[i], min_input[i], max_input[i])]
  /\ min_input' = [i \in View |-> place(min_input[i], 10 + 350 * i, 5)]
  /\ max_input' = [i \in View |-> place(max_input[i], 10 + 350 * i + 100, 5)]
  /\ zoom_btn' = [i \in View |-> place(zoom_btn[i], 10 + 350 * i + 200, 5)]
  /\ drag_btn' = [i \in View |-> place(drag_btn[i], 10 + 350 * i + 280, 5)]
  /\ UNCHANGED <<views_, interaction_, down>>

\* the pointer positions of the events: on min_input and on max_input of the
\* view 0, before and after the first frame, and on the canvas
ShortPoints == {<<20, 10>>, <<120, 10>>, <<300, 300>>}

ShortButtonPress ==
  \E p \in ShortPoints, b \in Buttons \ down :
    /\ short_handle_events(Event("ButtonPress", p[1], p[2], b, ""))
    /\ down' = down \cup {b}

ShortButtonRelease ==
  \E p \in ShortPoints, b \in down :
    /\ short_handle_events(Event("ButtonRelease", p[1], p[2], b, ""))
    /\ down' = down \ {b}

ShortMotionNotify ==
  \E p \in ShortPoints :
    /\ short_handle_events(Event("MotionNotify", p[1], p[2], 0, ""))
    /\ UNCHANGED down

ShortKeyPress ==
  \E k \in Keys :
    /\ short_handle_events(Event("KeyPress", 0, 0, 0, k))
    /\ \A i \in View : /\ Len(min_input'[i].text_) <= MaxTextLen
                       /\ Len(max_input'[i].text_) <= MaxTextLen
    /\ UNCHANGED down

varsNotShort ==
  <<scrollbar, xy_radio, xz_radio, yz_radio, dims, acc, build, frame, vol, canvas,
    inputs, drawn, layout, gesture, state_, volobj, loaded, tick>>

InitShortCircuit ==
  /\ loaded = Volumes
  /\ InitShort
  /\ scrollbar = <<>> /\ xy_radio = <<>> /\ xz_radio = <<>> /\ yz_radio = <<>>
  /\ OthersAtRest

NextShort ==
  \/ ShortButtonPress /\ UNCHANGED varsNotShort
  \/ ShortButtonRelease /\ UNCHANGED varsNotShort
  \/ ShortMotionNotify /\ UNCHANGED varsNotShort
  \/ ShortKeyPress /\ UNCHANGED varsNotShort
  \/ ShortFrame /\ UNCHANGED varsNotShort

SpecShort == InitShortCircuit /\ [][NextShort]_vars

----------------------------------------------------------------------------
(* Properties of the sample accessors, under SpecVolume *)

\* C1: for every volume with positive dimensions and every integer triple
\* (x, y, z), the sample accessor returns the sentinel 0, reading nothing,
\* whenever a coordinate is below 0 or not below its dimension, and otherwise
\* reads the stored sample at the linear index z*nx*ny + y*nx + x, which is
\* inside [0, nx*ny*nz).
C1_AccessorSentinelOrStored ==
  acc.fn # "none" =>
    IF \/ acc.x < 0 \/ acc.x >= dims.nx
       \/ acc.y < 0 \/ acc.y >= dims.ny
       \/ acc.z < 0 \/ acc.z >= dims.nz
      THEN acc.read = NoRead /\ acc.value = 0 /\ ~acc.fault
      ELSE /\ acc.read = LinearIndex(dims, acc.x, acc.y, acc.z)
           /\ 0 <= acc.read /\ acc.read < size(dims)
           /\ acc.value = data(acc.read)
           /\ ~acc.fault

----------------------------------------------------------------------------
(* Properties of the FLTK canvas, under SpecCanvas and SpecWindow *)

\* C2: in every reachable state, after any sequence of plane changes, slice
\* changes, pans and box-zooms, and for each of the planes XY, XZ and YZ,
\* rendering the view never reads the sample store at a linear index outside
\* [0, nx*ny*nz).
C2_DrawReadsInsideStore ==
  \A i \in drawn : 0 <= i /\ i < size(vol)

\* C6: when the min or the max window text fails to parse as a number, the
\* volume's window range is left exactly as it was; a parse failure of one of
\* the two fields never updates the other bound.
C6_ParseFailureKeepsWindow ==
  [][(inputs' # inputs /\ (~stof(inputs'.min).ok \/ ~stof(inputs'.max).ok))
       => (vol'.win_min = vol.win_min /\ vol'.win_max = vol.win_max)]_vars

----------------------------------------------------------------------------
(* Properties of the intensity mapping, under SpecColormap *)

\* C3: for every window with windowMin < windowMax and every sample value,
\* the displayed intensity is 0 when the value is below windowMin and 255
\* when it is above windowMax; no value outside the window is shown with a
\* wrapped-around intermediate intensity.
C3_OutOfWindowSaturates ==
  (frame.renderer # "none" /\ frame.min < frame.max) =>
    \A v \in Samples :
      /\ v < frame.min => frame.pix[v] = 0
      /\ v > frame.max => frame.pix[v] = 255

\* C4: when the window is degenerate (windowMax = windowMin) the mapping
\* gives one and the same intensity for every sample value.
C4_DegenerateWindowIsConstant ==
  (frame.renderer # "none" /\ frame.min = frame.max) =>
    \A u \in Samples, v \in Samples : frame.pix[u] = frame.pix[v]

\* C5: for a fixed window with windowMin < windowMax the intensity is
\* non-decreasing in the sample value, is 0 at windowMin and 255 at windowMax.
C5_IntensityMonotone ==
  (frame.renderer # "none" /\ frame.min < frame.max) =>
    /\ \A u \in Samples, v \in Samples : u <= v => frame.pix[u] <= frame.pix[v]
    /\ frame.pix[frame.min] = 0
    /\ frame.pix[frame.max] = 255

----------------------------------------------------------------------------
(* Properties of the toolbar of create_layout, under SpecLayout *)

\* C7: for every view, in every state reachable by Zoom-button and
\* Drag-button toggles, zoom mode and drag mode are never both enabled.
C7_ZoomAndDragExclusive ==
  \A i \in 1..Len(layout.views) :
    ~(layout.views[i].zoom_mode /\ layout.views[i].drag_mode)

----------------------------------------------------------------------------
(* Properties of the gestures of the X11 viewer, under Spec *)

\* C8: from Idle (mode NONE), a left-button press that reaches the canvas
\* moves the interaction mode to BoxZoom (ZOOM_RECT) when the active view's
\* zoom flag is set, to Panning (DRAGGING) when its drag flag is set, and
\* leaves the mode Idle when neither flag is set.
C8_PressFromIdle ==
  [][\A p \in Points :
       LET e == Event("ButtonPress", p[1], p[2], Button1, "")
       IN  (/\ interaction_.mode = "NONE"
            /\ Button1 \notin down
            /\ down' = down \cup {Button1}
            /\ ~widget_handled(e)
            /\ handle_events(e))
           => interaction_'.mode =
                IF views_[interaction_'.active_view].zoom_mode THEN "ZOOM_RECT"
                ELSE IF views_[interaction_'.active_view].drag_mode THEN "DRAGGING"
                ELSE "NONE"]_vars

\* the left button has just gone down in the view 0, whose zoom flag is set,
\* and the gesture is a BoxZoom that starts at the press
C8_BoxZoomStarted ==
  /\ interaction_.mode = "ZOOM_RECT"
  /\ interaction_.active_view = 0
  /\ views_[0].zoom_mode
  /\ Button1 \in down
  /\ interaction_.start_x = InView0[1] /\ interaction_.start_y = InView0[2]
  /\ interaction_.current_x = InView0[1] /\ interaction_.current_y = InView0[2]

\* C9: whenever the interaction mode is BoxZoom or Panning, a release of the
\* pointer's left button at any position of the window (inside the canvas,
\* outside it, over a toolbar widget or a scrollbar) returns the mode to Idle.
C9_ReleaseReturnsToIdle ==
  [][\A p \in Points :
       (/\ interaction_.mode \in {"ZOOM_RECT", "DRAGGING"}
        /\ Button1 \in down
        /\ down' = down \ {Button1}
        /\ handle_events(Event("ButtonRelease", p[1], p[2], Button1, "")))
       => interaction_'.mode = "NONE"]_vars

\* C10: while the mode is BoxZoom, a move of the pointer changes only the
\* gesture's current point: the zoom, the visible rectangle, the plane and
\* the slice of the active view, and the state of every other view, stay as
\* they are.
C10_MoveChangesOnlyCurrent ==
  [][\A p \in Points :
       (/\ interaction_.mode = "ZOOM_RECT"
        /\ down' = down
        /\ handle_events(Event("MotionNotify", p[1], p[2], 0, "")))
       => /\ views_' = views_
          /\ interaction_'.mode = interaction_.mode
          /\ interaction_'.active_view = interaction_.active_view
          /\ interaction_'.start_x = interaction_.start_x
          /\ interaction_'.start_y = interaction_.start_y]_vars

\* C11: while the mode is Panning (DRAGGING), every move of the pointer that
\* reaches the canvas applies to the active view's pan (its visible
\* rectangle) the delta between this move's position and the previous one,
\* and then advances the gesture's start point to the current position.
C11_MoveAppliesPanDelta ==
  [][\A p \in Points :
       LET e == Event("MotionNotify", p[1], p[2], 0, "")
           view == views_[interaction_.active_view]
           delta_x == CDiv((view.volume_x_end - view.volume_x_start)
                             * (interaction_.start_x - p[1]), view.canvas_width)
           delta_y == CDiv((view.volume_y_end - view.volume_y_start)
                             * (interaction_.start_y - p[2]), view.canvas_height)
       IN  (/\ interaction_.mode = "DRAGGING"
            /\ down' = down
            /\ ~widget_handled(e)
            /\ handle_events(e))
           => /\ views_'[interaction_.active_view].volume_x_start
                   = view.volume_x_start + delta_x
              /\ views_'[interaction_.active_view].volume_y_start
                   = view.volume_y_start + delta_y
              /\ interaction_'.start_x = p[1]
              /\ interaction_'.start_y = p[2]]_vars

----------------------------------------------------------------------------
(* Properties of the box zoom, under SpecZoom *)

\* C12: on the release of a box-zoom drag whose rectangle exceeds the
\* threshold (both screen dimensions above 10 pixels), the rectangle's centre
\* in volume space is shown at the centre of the canvas (to within one
\* sample), and a view that showed the whole plane at zoom 1 is shown at the
\* one zoom min(canvasWidth/rectWidth, canvasHeight/rectHeight) along both
\* axes (to within one sample across the canvas).
C12_BoxZoomCentresAndScales ==
  (/\ gesture.fn = "handle_zoom"
   /\ Abs(gesture.current_x - gesture.start_x) > 10
   /\ Abs(gesture.current_y - gesture.start_y) > 10) =>
    LET b == gesture.before
        a == gesture.after
        rect_w == Abs(gesture.current_x - gesture.start_x)
        rect_h == Abs(gesture.current_y - gesture.start_y)
        centre_x == img_x_of(b, CDiv(gesture.start_x + gesture.current_x, 2) - b.canvas_x)
        centre_y == img_y_of(b, CDiv(gesture.start_y + gesture.current_y, 2) - b.canvas_y)
        span_x == img_x_of(a, a.canvas_width) - img_x_of(a, 0)
        span_y == img_y_of(a, a.canvas_height) - img_y_of(a, 0)
        whole == /\ b.volume_x_start = 0 /\ b.volume_x_end = b.canvas_width
                 /\ b.volume_y_start = 0 /\ b.volume_y_end = b.canvas_height
    IN  /\ Abs(img_x_of(a, CDiv(a.canvas_width, 2)) - centre_x) <= 1
        /\ Abs(img_y_of(a, CDiv(a.canvas_height, 2)) - centre_y) <= 1
        /\ whole =>
             IF a.canvas_width * rect_h <= a.canvas_height * rect_w
               THEN /\ Abs(span_x - rect_w) <= 1
                    /\ Abs(a.canvas_height * rect_w - a.canvas_width * span_y)
                         <= a.canvas_width
               ELSE /\ Abs(a.canvas_width * rect_h - a.canvas_height * span_x)
                         <= a.canvas_height
                    /\ Abs(span_y - rect_h) <= 1


\* C13: a box-zoom release changes the view exactly when both dimensions of
\* the dragged rectangle exceed 10 screen pixels; a drag 10 pixels or less
\* wide or high (a zero-area click included) leaves the view's zoom and pan,
\* its visible rectangle, unchanged.
C13_ThresholdTenPixels ==
  gesture.fn = "handle_zoom" =>
    (gesture.after # gesture.before
       <=> /\ Abs(gesture.current_x - gesture.start_x) > 10
           /\ Abs(gesture.current_y - gesture.start_y) > 10)


\* C14: in every reachable state each view's slice index is at least 0 and
\* less than the extent of the slice axis of the view's plane (XY: nz, XZ: ny,
\* YZ: nx) in the view's volume.
C14_SliceInsidePlaneExtent ==
  \A i \in View :
    /\ 0 <= views_[i].current_slice
    /\ views_[i].current_slice < SliceExtent(volume(i), views_[i].plane)


(* Properties of the presses outside the views, under SpecOutside *)

\* C15: a left-button press in Idle that reaches the canvas at a point
\* contained in no view's rectangle leaves the mode Idle, and the release of a
\* gesture whose press point lies in no view's rectangle changes no view.
C15_PressOutsideViewsIsInert ==
  [][\A p \in CanvasPoints :
       /\ LET e == Event("ButtonPress", p[1], p[2], Button1, "")
          IN  (/\ interaction_.mode = "NONE"
               /\ Button1 \notin down
               /\ down' = down \cup {Button1}
               /\ ~widget_handled(e)
               /\ \A i \in View :
                    ~is_point_in_view(p[1], p[2], volume(i), views_[i], scrollbar[i])
               /\ handle_events(e))
              => interaction_'.mode = "NONE"
       /\ LET e == Event("ButtonRelease", p[1], p[2], Button1, "")
          IN  (/\ Button1 \in down
               /\ down' = down \ {Button1}
               /\ \A i \in View :
                    ~is_point_in_view(interaction_.start_x, interaction_.start_y,
                                      volume(i), views_[i], scrollbar[i])
               /\ handle_events(e))
              => \A i \in View :
                   /\ views_'[i].volume_x_start = views_[i].volume_x_start
                   /\ views_'[i].volume_x_end = views_[i].volume_x_end
                   /\ views_'[i].volume_y_start = views_[i].volume_y_start
                   /\ views_'[i].volume_y_end = views_[i].volume_y_end]_vars


(* Properties of the hit test, under Spec *)

\* C16: in every reachable state, the first frame not yet drawn included, the
\* rectangles is_point_in_view tests for two different views do not overlap:
\* the upper left corner of neither lies in the other, so no point is in both.
C16_HitRectanglesDisjoint ==
  \A i, j \in View :
    i # j => ~is_point_in_view(view_x_of(scrollbar[j]), view_y_of,
                               volume(i), views_[i], scrollbar[i])


(* Properties of the keyboard viewer, under SpecKeys *)

\* C17: for every screen point (sx, sy) and every transform of state_ (zoom
\* above 0, any pan), converting the point to volume coordinates and back to
\* screen coordinates, as draw_frame converts them, gives (sx, sy) again.
C17_ScreenVolumeRoundTrip ==
  \A sx, sy \in ScreenPoints :
    /\ volumeToScreen(screenToVolume(sx, state_.pan_x, state_.zoom),
                      state_.pan_x, state_.zoom) = sx
    /\ volumeToScreen(screenToVolume(sy, state_.pan_y, state_.zoom),
                      state_.pan_y, state_.zoom) = sy


(* Properties of the rubber-band viewer, under SpecLayout *)

\* C18: in every reachable state every view's zoom factor is finite and at
\* least the floor 1/10.
C18_ZoomAtLeastFloor ==
  \A i \in 1..Len(Volumes) :
    /\ ~layout.views[i].zoom.inf
    /\ layout.views[i].zoom.den > 0
    /\ layout.views[i].zoom.num * 10 >= layout.views[i].zoom.den


\* C19: a left-button press that reaches the canvas and starts a rubber band
\* sets both corners of the selection, (sel_x1, sel_y1) and (sel_x2, sel_y2),
\* to the press point, so nothing of the previous gesture is left in them.
C19_PressResetsBothCorners ==
  [][\A p \in LayoutPoints :
       LET e == Event("ButtonPress", p[1], p[2], Button1, "")
       IN  (/\ Button1 \notin down
            /\ down' = down \cup {Button1}
            /\ ~layout_loop(layout.views, 1, e).ret
            /\ layout' = layout_handle_events(layout, e)
            /\ layout'.rubber_band_active)
           => LET view == layout'.views[layout'.current_view + 1]
              IN  /\ view.sel_x1 = p[1] /\ view.sel_y1 = p[2]
                  /\ view.sel_x2 = p[1] /\ view.sel_y2 = p[2]]_vars


(* Properties of the gestures and the other views, under Spec *)

\* C20: a step changes a view other than the active one only if it is not an
\* event of a pan or box-zoom gesture that reaches the canvas (the mode is
\* DRAGGING or ZOOM_RECT and no widget takes the motion or the release): a
\* gesture changes the active view only, and the visible rectangle, zoom and
\* drag flags, plane and slice of every other view are as before.
C20_GestureChangesActiveViewOnly ==
  [][\/ \A j \in View \ {interaction_.active_view} : views_'[j] = views_[j]
     \/ ~\E p \in Points :
           \E e \in {Event("MotionNotify", p[1], p[2], 0, ""),
                     Event("ButtonRelease", p[1], p[2], Button1, "")} :
             /\ interaction_.mode # "NONE"
             /\ ~widget_handled(e)
             /\ handle_events(e)]_vars

\* a pan of the view 0 has ended: its visible rectangle has moved, and the
\* view 1 still shows its whole plane
C20_FirstViewPannedAlone ==
  /\ interaction_.mode = "NONE"
  /\ interaction_.active_view = 0
  /\ views_[0].drag_mode
  /\ Button1 \notin down
  /\ views_[0].volume_x_start # 0
  /\ views_[1].volume_x_start = 0 /\ views_[1].volume_x_end = views_[1].canvas_width
  /\ views_[1].volume_y_start = 0 /\ views_[1].volume_y_end = views_[1].canvas_height


(* Properties of the window setter, under SpecSetter *)

\* C21: a call of the window setter with the pair (min, max), whatever the
\* order of the two, leaves window_min_ = min and window_max_ = max exactly,
\* and leaves the dimensions, the samples and the global range as they were.
C21_SetterStoresPairOnly ==
  [][\A min, max \in Windows :
       volobj' = Volume_set_window(volobj, min, max)
         => /\ volobj'.window_min_ = min /\ volobj'.window_max_ = max
            /\ volobj'.nx_ = volobj.nx_ /\ volobj'.ny_ = volobj.ny_
            /\ volobj'.nz_ = volobj.nz_ /\ volobj'.data_ = volobj.data_
            /\ volobj'.global_min_ = volobj.global_min_
            /\ volobj'.global_max_ = volobj.global_max_]_vars

\* the setter was given an inverted pair and the object holds it, with more
\* than one sample in its store
C21_InvertedWindowStored ==
  /\ volobj.window_min_ > volobj.window_max_
  /\ volobj.nx_ * volobj.ny_ * volobj.nz_ > 1


(* Properties of the keys of the keyboard viewer, under SpecKeys *)

\* C22: a Left key takes 1 from the slice index and a Right key adds 1 to
\* it, the result clamped to [0, get_max_slice()] of the current plane, so
\* just after an arrow key, whatever keys came before it, the slice index is
\* in [0, get_max_slice()].
C22_ArrowKeyClampsSlice ==
  [][\A key \in {"Left", "Right"} :
       state_' = handle_key_press(key, state_)
         => /\ 0 <= state_'.slice /\ state_'.slice <= get_max_slice(state_')
            /\ state_'.slice =
                 Clamp(state_.slice + (IF key = "Left" THEN 0 - 1 ELSE 1),
                       0, get_max_slice(state_))]_vars


(* Properties of the scrollbar, under SpecPlane *)

\* C23: before and after every step the value of each view's scrollbar is
\* within the scrollbar's range and the range is [0, extent - 1] of the slice
\* axis of the view's plane; and a step in which the scrollbar of a view takes
\* the event leaves the view's slice index equal to the scrollbar's value,
\* inside that range.
C23_ScrollbarValueInPlaneRange ==
  [][\A i \in View :
       /\ \A sb \in {scrollbar[i]} :
            /\ sb.min_value_ = 0
            /\ sb.max_value_ = SliceExtent(volume(i), views_[i].plane) - 1
            /\ sb.min_value_ <= sb.current_value_
            /\ sb.current_value_ <= sb.max_value_
       /\ \A sb \in {scrollbar'[i]} :
            /\ sb.min_value_ = 0
            /\ sb.max_value_ = SliceExtent(volume(i), views_'[i].plane) - 1
            /\ sb.min_value_ <= sb.current_value_
            /\ sb.current_value_ <= sb.max_value_
       /\ \A p \in PlanePoints, b \in Buttons :
            \A t \in {"ButtonPress", "MotionNotify", "ButtonRelease"} :
              \A e \in {Event(t, p[1], p[2], IF t = "MotionNotify" THEN 0 ELSE b, "")} :
                (/\ Scrollbar_handle_event(scrollbar[i], e).ret
                 /\ handle_events(e))
                => /\ views_'[i].current_slice = scrollbar'[i].current_value_
                   /\ 0 <= views_'[i].current_slice
                   /\ views_'[i].current_slice <= scrollbar'[i].max_value_]_vars

\* the scrollbar of the view 0 was dragged to its lower end in the plane XZ:
\* it holds the last slice of that plane, and so does the view
C23_LastSliceOfXZ ==
  /\ views_[0].plane = "XZ"
  /\ scrollbar[0].max_value_ = volume(0).ny - 1
  /\ scrollbar[0].current_value_ = scrollbar[0].max_value_
  /\ views_[0].current_slice = scrollbar[0].current_value_
  /\ scrollbar[0].current_value_ > 0


(* Properties of the intensity mapping, under SpecColormap *)

\* C24: in a frame of draw_volume with a window min < max, a sample value
\* strictly inside the window is shown with the intensity
\* 255 * (value - min) / (max - min) rounded to the nearest integer.
C24_IntensityRoundsToNearest ==
  (frame.renderer = "draw_volume" /\ frame.min < frame.max) =>
    \A v \in Samples :
      (frame.min < v /\ v < frame.max) =>
        frame.pix[v] = (2 * 255 * (v - frame.min) + (frame.max - frame.min))
                         \div (2 * (frame.max - frame.min))


(* Properties of the end of a pan, under Spec *)

\* C25: a release of the left button that reaches the canvas while the mode
\* is DRAGGING changes no view: the visible rectangle of the active view
\* after the release is the one it had just before.
C25_PanReleaseChangesNoView ==
  [][\/ views_' = views_
     \/ ~\E p \in Points :
           \E e \in {Event("ButtonRelease", p[1], p[2], Button1, "")} :
             /\ interaction_.mode = "DRAGGING"
             /\ Button1 \in down
             /\ down' = down \ {Button1}
             /\ ~widget_handled(e)
             /\ handle_events(e)]_vars


(* Properties of the hit test and the drawn rectangles, under Spec *)

\* C26: once draw_ui has placed the views, a point is inside the rectangle
\* is_point_in_view tests for the view i exactly when it is inside the
\* rectangle the view i is drawn in: canvas_width columns from canvas_x and
\* canvas_height rows from canvas_y.
C26_HitTestMatchesDrawnRectangle ==
  \A i \in View :
    views_[i].canvas_y = toolbar_height_ + image_spacing_ =>
      \A p \in Points :
        is_point_in_view(p[1], p[2], volume(i), views_[i], scrollbar[i])
          <=> /\ views_[i].canvas_x <= p[1]
              /\ p[1] < views_[i].canvas_x + views_[i].canvas_width
              /\ views_[i].canvas_y <= p[2]
              /\ p[2] < views_[i].canvas_y + views_[i].canvas_height


(* Properties of the layout, under Spec *)

\* C27: the canvas origin draw_ui computes for each view after the first is
\* the previous view's origin plus the previous view's width, the fixed
\* spacing and the scrollbar's width, where the width of a view is its
\* plane's width times its zoom, the zoom being
\* canvas_width / (volume_x_end - volume_x_start); the equation is multiplied
\* by the visible width to stay in integers.
C27_LayoutFollowsZoom ==
  \A i \in View \ {0} :
    \A prev \in {views_[i - 1]} :
      prev.volume_x_end - prev.volume_x_start > 0 =>
        x_pos(i) * (prev.volume_x_end - prev.volume_x_start)
          = (x_pos(i - 1) + image_spacing_ + scrollbar_width_)
              * (prev.volume_x_end - prev.volume_x_start)
            + get_view_width(volume(i - 1), prev.plane) * prev.canvas_width


\* C28: once a frame has laid the views out, every press that reaches the
\* canvas switch is resolved against the rectangles of the views' current
\* planes: it leaves the interaction state that a hit-test against the
\* positions draw_ui computes from the current canvas widths leaves.
C28_PressSeesCurrentRectangles ==
  [][\/ views_[0].canvas_y # toolbar_height_ + image_spacing_
     \/ \A p \in ReplanePoints :
          \A e \in {Event("ButtonPress", p[1], p[2], Button1, "")} :
            (~widget_handled(e) /\ handle_events(e)) =>
              interaction_' = canvas_press(e, views_',
                                           [i \in View |-> draw_ui_scrollbar(i)],
                                           interaction_)]_vars


\* C29: the conversion of draw_frame takes the floor: a column left of pan_x
\* and a row above pan_y convert to a negative volume index, never to the
\* column or row 0.
C29_LeftOfPanIsNegative ==
  \A sx, sy \in ScreenPoints :
    /\ sx < state_.pan_x => screenToVolume(sx, state_.pan_x, state_.zoom) < 0
    /\ sy < state_.pan_y => screenToVolume(sy, state_.pan_y, state_.zoom) < 0


\* C30: a canvas pixel whose image point lies outside the plane of the view,
\* [0, width) x [0, height), is not filled by draw_volume: it keeps the
\* background draw_ui cleared the buffer to.
C30_OutsidePixelsKeepBackground ==
  \A i \in View :
    views_[i].canvas_y = toolbar_height_ + image_spacing_ =>
      \A x \in 0..(views_[i].canvas_width - 1), y \in 0..(views_[i].canvas_height - 1) :
        ~(/\ 0 <= img_x_of(views_[i], x)
          /\ img_x_of(views_[i], x) < get_view_width(volume(i), views_[i].plane)
          /\ 0 <= img_y_of(views_[i], y)
          /\ img_y_of(views_[i], y) < get_view_height(volume(i), views_[i].plane))
          => ~\E f \in draw_volume(volume(i), views_[i], window[i], build,
                                   x_pos(i), toolbar_height_ + image_spacing_) :
                 f.x = x_pos(i) + x /\ f.y = toolbar_height_ + image_spacing_ + y


\* C30 for draw_frame of the keyboard viewer: an image point that converts to
\* a volume coordinate outside the plane assigns no pixel of image_buffer_.
C30_DrawFrameSkipsOutside ==
  \A x, y \in ScreenPoints :
    ~draw_frame_pixel(state_, x, y).inside => ~draw_frame_pixel(state_, x, y).written


\* C31: every buffer pixel (sx, sy) whose screenToVolume image lies inside the
\* plane is set by draw_frame, and holds the value of the sample at that image.
C31_InsidePixelsShowTheirSample ==
  \A sx, sy \in ScreenPoints :
    draw_frame_pixel(state_, sx, sy).inside =>
      /\ image_buffer_at(state_, sx, sy).set
      /\ image_buffer_at(state_, sx, sy).value =
           plane_sample(KeyVolume, [plane |-> state_.plane, current_slice |-> state_.slice],
                        screenToVolume(sx, state_.pan_x, state_.zoom),
                        screenToVolume(sy, state_.pan_y, state_.zoom)).value


\* C32: a pass of the loop of Viewer::run handles every event that was pending
\* when it began before it redraws: none is left for a later pass.
C32_PassDrainsPendingEvents == tick.deferred = 0


\* C33: a box zoom gives the view that the box drawn the other way, from the
\* release point to the press point, gives.
C33_BoxZoomIgnoresDirection ==
  gesture.fn = "handle_zoom" =>
    gesture.after =
      handle_zoom(gesture.before,
                  [mode |-> "ZOOM_RECT", active_view |-> 0,
                   start_x |-> gesture.current_x, start_y |-> gesture.current_y,
                   current_x |-> gesture.start_x, current_y |-> gesture.start_y])

\* a box drawn from its lower left to its upper right corner was committed
C33_BoxDrawnBackwards ==
  /\ gesture.fn = "handle_zoom"
  /\ gesture.start_x < gesture.current_x /\ gesture.start_y > gesture.current_y
  /\ gesture.after # gesture.before


\* C34: draw_volume samples inside the visible rectangle: for every canvas
\* pixel the image column lies in [volume_x_start, volume_x_end) and the image
\* row in [volume_y_start, volume_y_end).
C34_SamplesInsideVisibleRectangle ==
  \A i \in View :
    \A x \in 0..(views_[i].canvas_width - 1), y \in 0..(views_[i].canvas_height - 1) :
      /\ views_[i].volume_x_start <= img_x_of(views_[i], x)
      /\ img_x_of(views_[i], x) < views_[i].volume_x_end
      /\ views_[i].volume_y_start <= img_y_of(views_[i], y)
      /\ img_y_of(views_[i], y) < views_[i].volume_y_end


\* C35: the release that commits a pan leaves the width and the height of
\* every visible rectangle as they were: a pan translates, it does not resize.
C35_PanKeepsRectangleSize ==
  [][\/ \A j \in View :
          /\ views_'[j].volume_x_end - views_'[j].volume_x_start
               = views_[j].volume_x_end - views_[j].volume_x_start
          /\ views_'[j].volume_y_end - views_'[j].volume_y_start
               = views_[j].volume_y_end - views_[j].volume_y_start
     \/ ~\E p \in Points :
           \E e \in {Event("ButtonRelease", p[1], p[2], Button1, "")} :
             /\ interaction_.mode = "DRAGGING"
             /\ Button1 \in down
             /\ down' = down \ {Button1}
             /\ ~widget_handled(e)
             /\ handle_events(e)]_vars


\* C36: a committed box zoom whose box lies inside the canvas only narrows the
\* view: the new visible rectangle is contained in the one shown before the
\* gesture, whatever zoom the view had before.
C36_BoxZoomNarrows ==
  (/\ gesture.fn = "handle_zoom"
   /\ gesture.after # gesture.before
   /\ \A px \in {gesture.start_x, gesture.current_x} :
        /\ gesture.before.canvas_x <= px
        /\ px < gesture.before.canvas_x + gesture.before.canvas_width
   /\ \A py \in {gesture.start_y, gesture.current_y} :
        /\ gesture.before.canvas_y <= py
        /\ py < gesture.before.canvas_y + gesture.before.canvas_height)
  => /\ gesture.before.volume_x_start <= gesture.after.volume_x_start
     /\ gesture.after.volume_x_end <= gesture.before.volume_x_end
     /\ gesture.before.volume_y_start <= gesture.after.volume_y_start
     /\ gesture.after.volume_y_end <= gesture.before.volume_y_end


\* the radio button of the plane of each view is selected, and no other
RadioShowsPlane ==
  \A i \in View :
    /\ xy_radio[i].selected_ <=> views_[i].plane = "XY"
    /\ xz_radio[i].selected_ <=> views_[i].plane = "XZ"
    /\ yz_radio[i].selected_ <=> views_[i].plane = "YZ"

\* the view i shows the plane p in full on a canvas of the plane's size
ShowsFullPlane(i, p) ==
  /\ views_'[i].plane = p
  /\ views_'[i].canvas_width = get_view_width(volume(i), p)
  /\ views_'[i].canvas_height = get_view_height(volume(i), p)
  /\ views_'[i].volume_x_start = 0 /\ views_'[i].volume_y_start = 0
  /\ views_'[i].volume_x_end = get_view_width(volume(i), p)
  /\ views_'[i].volume_y_end = get_view_height(volume(i), p)

\* C37: in every state exactly one of the radio buttons of a view is selected,
\* the one of the view's plane; and a press on a radio button sets that plane
\* and resets the canvas size and the visible rectangle to the plane's extents.
C37_RadioSelectsPlaneAndResets ==
  /\ []RadioShowsPlane
  /\ [][\A i \in View, p \in RadioPoints :
          \A e \in {Event("ButtonPress", p[1], p[2], Button1, "")} :
            /\ ~RadioButton_handle_event(xy_radio[i], e).ret
                 \/ ShowsFullPlane(i, "XY") \/ ~handle_events(e)
            /\ ~RadioButton_handle_event(xz_radio[i], e).ret
                 \/ ShowsFullPlane(i, "XZ") \/ ~handle_events(e)
            /\ ~RadioButton_handle_event(yz_radio[i], e).ret
                 \/ ShowsFullPlane(i, "YZ") \/ ~handle_events(e)]_vars

\* the view 0 shows the XZ plane in full while its Drag button is on and a
\* press on its canvas began the last gesture
C37_PlaneChangedAfterPan ==
  /\ views_[0].plane = "XZ" /\ views_[0].drag_mode
  /\ interaction_.start_x = InView0[1] /\ interaction_.mode = "NONE"
  /\ views_[0].volume_x_start = 0 /\ views_[0].volume_x_end = get_view_width(volume(0), "XZ")
  /\ views_[0].volume_y_start = 0 /\ views_[0].volume_y_end = get_view_height(volume(0), "XZ")


\* the text inputs of the window that have the keyboard focus
Focused ==
  {<<i, "min">> : i \in {j \in View : min_input[j].has_focus_}}
    \cup {<<i, "max">> : i \in {j \in View : max_input[j].has_focus_}}

\* C38: at most one text input of the window has the keyboard focus, and a
\* key press changes the text of a focused input only.
C38_OneFocusedInput ==
  [][/\ Cardinality(Focused') <= 1
     /\ \A i \in View :
          /\ min_input'[i].text_ # min_input[i].text_ => min_input[i].has_focus_
          /\ max_input'[i].text_ # max_input[i].text_ => max_input[i].has_focus_]_vars

=============================================================================
